---- MODULE Spec2Model ----
(***************************************************************************)
(* The utilsio React SDK session bridge (UtilsioProvider): the component   *)
(* state, the cross-frame message handler, the React effects, and the      *)
(* asynchronous operations refresh and cancelSubscription, each cut at its *)
(* await points.                                                           *)
(***************************************************************************)
EXTENDS Integers, Sequences, FiniteSets, TLC

\* ------------------------------------------------------------------ bounds
\* number of operation invocations (refresh, cancelSubscription) in flight
MaxOps == 2
\* longest subscriptionIds list passed to cancelSubscription
MaxIds == 2

\* ------------------------------------------------------------- JS values
\* TLC cannot compare a string with a record, so JS null and undefined have
\* one representation among strings and one among objects.
null == "<null>"
undefined == "<undefined>"
nullObj == [isNull |-> TRUE]
undefinedObj == [isUndefined |-> TRUE]

\* JS truthiness of a string-or-nullish value (!x is ~Truthy(x))
Truthy(x) == x \notin {null, undefined, ""}
\* JS truthiness of an object-or-nullish value
TruthyObj(x) == x \notin {nullObj, undefinedObj}
\* x ?? null
OrNull(x) == IF x = undefined THEN null ELSE x
OrNullObj(x) == IF x = undefinedObj THEN nullObj ELSE x
\* a || b on strings
OrElse(a, b) == IF Truthy(a) THEN a ELSE b

\* ------------------------------------------------------ input domains
Users == {[id |-> "u1"]}
DeviceIds == {"d1", "d2"}
AppId == "app1"
BaseUrl == "https://utilsio.example"
AppUrls == {undefined, "", "https://app.example"}
\* strings that may appear in subscriptionIds
IdPool == {"s2", "v1"}
\* UTF-16 code units of the strings the default sort compares
CodeUnits ==
    [s \in {"s1", "s2", "u1", "u10", "v1"} |->
        CASE s = "s1" -> <<115, 49>>
          [] s = "s2" -> <<115, 50>>
          [] s = "u1" -> <<117, 49>>
          [] s = "u10" -> <<117, 49, 48>>
          [] s = "v1" -> <<118, 49>>]
\* the subscriptionIds arguments: lists of distinct ids, up to MaxIds long
IdLists ==
    UNION {{l \in [1..n -> IdPool] : \A i, j \in 1..n : l[i] = l[j] => i = j} :
           n \in 0..MaxIds}

\* what the signing callback may resolve with
SignResults ==
    {[signature |-> "sigA", timestamp |-> "1700000000"],
     [signature |-> "sigB", timestamp |-> "1700000001"]}
\* what an awaited call may reject with: an Error or any other value
Thrown ==
    {[isError |-> TRUE, message |-> "sign failed"],
     [isError |-> FALSE, value |-> 42]}
NetworkFailure == [isError |-> TRUE, message |-> "Failed to fetch"]

\* subscription records as the remote service returns them
RawSubscriptions ==
    {[id |-> i, amountPerDay |-> "1", createdAt |-> "2024-01-01", cancelledAt |-> c] :
        i \in {"sub1"}, c \in {undefined, null, "2024-02-02"}}
\* responses to the subscription GET
GetResponses ==
    {[kind |-> "reject", thrown |-> NetworkFailure]}
    \cup {[kind |-> "http", ok |-> FALSE, status |-> 500, text |-> t] : t \in {"", "server error"}}
    \cup {[kind |-> "http", ok |-> TRUE, payload |-> [success |-> FALSE, error |-> e]] :
            e \in {undefined, "bad signature"}}
    \cup {[kind |-> "http", ok |-> TRUE, payload |-> [success |-> TRUE, subscription |-> s]] :
            s \in {nullObj} \cup RawSubscriptions}
\* the results array of a DELETE payload (absent, or its items)
DeleteResults ==
    {[present |-> FALSE],
     [present |-> TRUE, items |-> <<>>],
     [present |-> TRUE, items |-> <<[success |-> TRUE, error |-> undefined]>>],
     [present |-> TRUE, items |-> <<[success |-> FALSE, error |-> undefined],
                                    [success |-> FALSE, error |-> "item failed"]>>],
     [present |-> TRUE, items |-> <<[success |-> TRUE, error |-> "ignored"],
                                    [success |-> FALSE, error |-> "item failed"]>>]}
\* responses to the subscription DELETE
DeleteResponses ==
    {[kind |-> "reject", thrown |-> NetworkFailure]}
    \cup {[kind |-> "http", ok |-> FALSE, status |-> 403, text |-> t] : t \in {"", "forbidden"}}
    \cup {[kind |-> "http", ok |-> TRUE, payload |-> [success |-> FALSE, results |-> r, error |-> e]] :
            r \in DeleteResults, e \in {undefined, "cancel failed"}}
    \cup {[kind |-> "http", ok |-> TRUE,
           payload |-> [success |-> TRUE, results |-> [present |-> FALSE], error |-> undefined]]}

\* inbound cross-frame messages (event.data)
\* the params argument of redirectToConfirm
RedirectParams ==
    {[appId |-> AppId, appName |-> "App", amountPerDay |-> "0.5",
      appLogo |-> l, appUrl |-> u,
      nextSuccess |-> "https://app.example/success",
      nextCancelled |-> "https://app.example/cancelled"] :
        l \in {undefined, "https://app.example/logo.png"},
        u \in {undefined, "https://app.example"}}

ReadyMessage == [isObject |-> TRUE, typeofType |-> "string", type |-> "utilsio:embed:ready"]
AuthMessages ==
    {[isObject |-> TRUE, typeofType |-> "string", type |-> "utilsio:embed:auth", user |-> u, deviceId |-> d] :
        u \in {undefinedObj, nullObj} \cup Users, d \in {undefined, null} \cup DeviceIds}
IgnoredMessages ==
    {[isObject |-> FALSE, typeofType |-> "undefined", type |-> undefined],
     [isObject |-> TRUE, typeofType |-> "number", type |-> "7"],
     [isObject |-> TRUE, typeofType |-> "undefined", type |-> undefined],
     [isObject |-> TRUE, typeofType |-> "string", type |-> "utilsio:embed:other"]}
Messages == {ReadyMessage} \cup AuthMessages \cup IgnoredMessages
\* the origins a message event can carry: the embed's own and a foreign one
Origins == {BaseUrl, "https://other.example"}
MessageEvents == [origin : Origins, data : Messages]

\* ------------------------------------------------------------------ state
VARIABLES
    mounted,              \* the provider's mount effects have run
    embedReady,           \* useState(false)
    user,                 \* useState(null)
    deviceId,             \* useState(null)
    currentSubscription,  \* useState(null)
    loading,              \* useState(true)
    error,                \* useState(null)
    requestsPosted,       \* request messages posted into the frame
    ops,                  \* invocations of refresh / cancelSubscription waiting at an await
    settled,              \* the invocation whose promise has just settled, or NoOp
    location,             \* window.location.href once the provider has assigned it
    signerCalls           \* the server signer: its last two calls, oldest first

vars == <<mounted, embedReady, user, deviceId, currentSubscription, loading, error,
          requestsPosted, ops, settled, location, signerCalls>>

NoCall == [called |-> FALSE]
NoRequest == [issued |-> FALSE]
NoResponse == [kind |-> "none"]
NoNavigation == [navigated |-> FALSE]

\* an invocation: what its closure captured (deviceId, user) and was passed
\* (subscriptionIds, appUrl, params), where it waits (pc), the external calls it has
\* made (signCall, request for the DELETE; getSignCall, getRequest for the
\* GET), what came back (signResult, getSignResult, deleteResponse for the
\* DELETE, response for the call that settled last), what it threw or
\* caught (thrown), and how many GET and DELETE requests it has issued
NoOp ==
    [kind |-> "none", pc |-> "idle",
     deviceId |-> null, user |-> nullObj, subscriptionIds |-> <<>>, appUrl |-> undefined,
     params |-> nullObj,
     signCall |-> NoCall, signResult |-> nullObj, request |-> NoRequest,
     getSignCall |-> NoCall, getSignResult |-> nullObj, getRequest |-> NoRequest,
     deleteResponse |-> NoResponse, response |-> NoResponse, thrown |-> nullObj,
     gets |-> 0, deletes |-> 0]

\* what the caller sees of an invocation that settles after waiting: how it
\* settled, after which response, and what it threw or caught
Settled(op, how, resp, e) ==
    [NoOp EXCEPT !.kind = op.kind, !.pc = how, !.deviceId = op.deviceId, !.user = op.user,
                 !.appUrl = op.appUrl, !.deleteResponse = op.deleteResponse,
                 !.response = resp, !.thrown = e, !.gets = op.gets,
                 !.deletes = op.deletes]

\* the continuation of a settled promise is a microtask: it runs before the
\* next message, application call or network completion
NoneSettled == settled = NoOp
HasCapacity == Len(ops) < MaxOps
\* the application awaits one cancellation before it starts the next
NoCancelWaiting == \A i \in 1..Len(ops) : ops[i].kind # "cancelSubscription"

\* invocations carry no identity: the waiting ones are kept ordered by where
\* they wait, for which deviceId and with which signature
PcOrder(pc) ==
    CASE pc = "cancelAwaitSign" -> 1
      [] pc = "awaitDelete" -> 2
      [] pc = "awaitSign" -> 3
      [] pc = "awaitGet" -> 4
      [] pc = "redirectAwaitSign" -> 5
DeviceOrder == CHOOSE f \in [DeviceIds -> 1..Cardinality(DeviceIds)] :
                   \A a, b \in DeviceIds : a # b => f[a] # f[b]
SignOrder == CHOOSE f \in [SignResults -> 1..Cardinality(SignResults)] :
                 \A a, b \in SignResults : a # b => f[a] # f[b]
OpOrder(op) ==
    (PcOrder(op.pc) * (Cardinality(DeviceIds) + 1)
       + (IF op.deviceId \in DeviceIds THEN DeviceOrder[op.deviceId] ELSE 0))
      * (Cardinality(SignResults) + 1)
    + (IF op.getSignResult \in SignResults THEN SignOrder[op.getSignResult] ELSE 0)
Place(op, seq) ==
    LET n == Cardinality({i \in 1..Len(seq) : OpOrder(seq[i]) <= OpOrder(op)})
    IN  SubSeq(seq, 1, n) \o <<op>> \o SubSeq(seq, n + 1, Len(seq))
Without(seq, i) == SubSeq(seq, 1, i - 1) \o SubSeq(seq, i + 1, Len(seq))

\* a provider whose loading flag starts false
InitNotLoading ==
    /\ mounted = FALSE
    /\ embedReady = FALSE
    /\ user = nullObj
    /\ deviceId = null
    /\ currentSubscription = nullObj
    /\ loading = FALSE
    /\ error = null
    /\ requestsPosted = 0
    /\ ops = <<>>
    /\ settled = NoOp
    /\ location = NoNavigation
    /\ signerCalls = <<>>

Init ==
    /\ mounted = FALSE
    /\ embedReady = FALSE
    /\ user = nullObj
    /\ deviceId = null
    /\ currentSubscription = nullObj
    /\ loading = TRUE
    /\ error = null
    /\ requestsPosted = 0
    /\ ops = <<>>
    /\ settled = NoOp
    /\ location = NoNavigation
    /\ signerCalls = <<>>

\* ------------------------------------------------------- pure functions
Error(msg) == [isError |-> TRUE, message |-> msg]

\* e instanceof Error ? e.message : String(e)
errorString(e) == IF e.isError THEN e.message ELSE ToString(e.value)

\* a getSubscription that reports the status of a failed GET and not its body
getSubscriptionOutcomeStatusOnly(resp) ==
    IF resp.kind = "reject" THEN [threw |-> TRUE, thrown |-> resp.thrown]
    ELSE IF ~resp.ok
    THEN [threw |-> TRUE,
          thrown |-> Error("Failed to get subscription (" \o ToString(resp.status) \o ")")]
    ELSE IF ~resp.payload.success
    THEN [threw |-> TRUE,
          thrown |-> Error(OrElse(resp.payload.error, "Failed to get subscription"))]
    ELSE IF TruthyObj(resp.payload.subscription) /\ ~Truthy(resp.payload.subscription.cancelledAt)
    THEN [threw |-> FALSE,
          subscription |-> [id |-> resp.payload.subscription.id,
                            amountPerDay |-> resp.payload.subscription.amountPerDay,
                            createdAt |-> resp.payload.subscription.createdAt,
                            cancelledAt |-> null,
                            isActive |-> TRUE]]
    ELSE [threw |-> FALSE, subscription |-> nullObj]

\* a getSubscription that marks the subscription active and leaves its
\* cancelledAt as the payload has it
getSubscriptionOutcomeKeepsCancelledAt(resp) ==
    IF resp.kind = "reject" THEN [threw |-> TRUE, thrown |-> resp.thrown]
    ELSE IF ~resp.ok
    THEN [threw |-> TRUE,
          thrown |-> Error(OrElse(resp.text,
                        "Failed to get subscription (" \o ToString(resp.status) \o ")"))]
    ELSE IF ~resp.payload.success
    THEN [threw |-> TRUE,
          thrown |-> Error(OrElse(resp.payload.error, "Failed to get subscription"))]
    ELSE IF TruthyObj(resp.payload.subscription) /\ ~Truthy(resp.payload.subscription.cancelledAt)
    THEN [threw |-> FALSE,
          subscription |-> [id |-> resp.payload.subscription.id,
                            amountPerDay |-> resp.payload.subscription.amountPerDay,
                            createdAt |-> resp.payload.subscription.createdAt,
                            cancelledAt |-> resp.payload.subscription.cancelledAt,
                            isActive |-> TRUE]]
    ELSE [threw |-> FALSE, subscription |-> nullObj]

\* a getSubscription that stores the subscription of the payload as it came
getSubscriptionOutcomeRaw(resp) ==
    IF resp.kind = "reject" THEN [threw |-> TRUE, thrown |-> resp.thrown]
    ELSE IF ~resp.ok
    THEN [threw |-> TRUE,
          thrown |-> Error(OrElse(resp.text,
                        "Failed to get subscription (" \o ToString(resp.status) \o ")"))]
    ELSE IF ~resp.payload.success
    THEN [threw |-> TRUE,
          thrown |-> Error(OrElse(resp.payload.error, "Failed to get subscription"))]
    ELSE [threw |-> FALSE, subscription |-> resp.payload.subscription]

\* getSubscription after the GET has settled: what it throws or returns
getSubscriptionOutcome(resp) ==
    IF resp.kind = "reject" THEN [threw |-> TRUE, thrown |-> resp.thrown]
    ELSE IF ~resp.ok
    THEN [threw |-> TRUE,
          thrown |-> Error(OrElse(resp.text,
                        "Failed to get subscription (" \o ToString(resp.status) \o ")"))]
    ELSE IF ~resp.payload.success
    THEN [threw |-> TRUE,
          thrown |-> Error(OrElse(resp.payload.error, "Failed to get subscription"))]
    ELSE IF TruthyObj(resp.payload.subscription) /\ ~Truthy(resp.payload.subscription.cancelledAt)
    THEN [threw |-> FALSE,
          subscription |-> [id |-> resp.payload.subscription.id,
                            amountPerDay |-> resp.payload.subscription.amountPerDay,
                            createdAt |-> resp.payload.subscription.createdAt,
                            cancelledAt |-> null,
                            isActive |-> TRUE]]
    ELSE [threw |-> FALSE, subscription |-> nullObj]

\* a < b on strings: comparison of the UTF-16 code units, position by position
RECURSIVE CodeUnitsLess(_, _)
CodeUnitsLess(a, b) ==
    IF b = <<>> THEN FALSE
    ELSE IF a = <<>> THEN TRUE
    ELSE IF Head(a) # Head(b) THEN Head(a) < Head(b)
    ELSE CodeUnitsLess(Tail(a), Tail(b))
StringLess(x, y) == CodeUnitsLess(CodeUnits[x], CodeUnits[y])

\* Array.prototype.sort() without a comparator (stable, ascending by StringLess)
RECURSIVE sort(_)
sort(seq) ==
    IF seq = <<>> THEN <<>>
    ELSE LET init == sort(SubSeq(seq, 1, Len(seq) - 1))
             x == seq[Len(seq)]
             n == Cardinality({i \in 1..Len(init) : ~StringLess(x, init[i])})
         IN  SubSeq(init, 1, n) \o <<x>> \o SubSeq(init, n + 1, Len(init))

\* Array.prototype.join(sep)
RECURSIVE join(_, _)
join(seq, sep) ==
    IF seq = <<>> THEN ""
    ELSE IF Len(seq) = 1 THEN seq[1]
    ELSE seq[1] \o sep \o join(Tail(seq), sep)

\* additional data that leaves the user id out
cancelAdditionalDataIdsOnly(u, subscriptionIds) == join(sort(subscriptionIds), ",")

\* [user.id, ...subscriptionIds].sort().join(",")
cancelAdditionalData(u, subscriptionIds) == join(sort(<<u.id>> \o subscriptionIds), ",")

\* a cancelSubscription that takes the callback flow whenever deviceId is unknown
cancelBranchNoAppUrlCheck(u, d, appUrl) ==
    IF ~TruthyObj(u) THEN "throwUser"
    ELSE IF Truthy(d) THEN "sign"
    ELSE "fallback"

\* a cancelSubscription that prefers the callback flow when appUrl is given
cancelBranchAppUrlFirst(u, d, appUrl) ==
    IF ~TruthyObj(u) THEN "throwUser"
    ELSE IF Truthy(appUrl) THEN "fallback"
    ELSE IF Truthy(d) THEN "sign"
    ELSE "throwMissing"

\* which way cancelSubscription goes after setError(null)
cancelBranch(u, d, appUrl) ==
    IF ~TruthyObj(u) THEN "throwUser"
    ELSE IF Truthy(d) THEN "sign"
    ELSE IF Truthy(appUrl) THEN "fallback"
    ELSE "throwMissing"

\* the DELETE request of the signed flow; r is what the signing callback
\* returned (an absent header or body field is undefined, an absent flag FALSE)
signedDelete(u, d, subscriptionIds, r) ==
    [issued |-> TRUE, method |-> "DELETE", url |-> BaseUrl \o "/api/v1/subscription",
     signature |-> r.signature, timestamp |-> r.timestamp,
     body |-> [userId |-> u.id, appId |-> AppId, subscriptionIds |-> subscriptionIds,
               deviceId |-> d, signatureCallbackUrl |-> undefined,
               useSafariFallback |-> FALSE]]

\* the DELETE request of the Safari fallback flow (useSafariFallback is set
\* to true here and is absent, FALSE in the record, in the signed flow)
fallbackDelete(u, subscriptionIds, appUrl) ==
    [issued |-> TRUE, method |-> "DELETE", url |-> BaseUrl \o "/api/v1/subscription",
     signature |-> undefined, timestamp |-> undefined,
     body |-> [userId |-> u.id, appId |-> AppId, subscriptionIds |-> subscriptionIds,
               deviceId |-> undefined,
               signatureCallbackUrl |-> appUrl \o "/api/signature-callback",
               useSafariFallback |-> TRUE]]

\* the message thrown for a 2xx DELETE payload with success=false
FailedWithError(r) == ~r.success /\ Truthy(r.error)
\* a message choice that puts the top-level error before the items' errors
cancelErrorMessageTopFirst(payload) ==
    LET errors == IF payload.results.present
                  THEN SelectSeq(payload.results.items, FailedWithError)
                  ELSE <<>>
        first == IF errors = <<>> THEN undefined ELSE errors[1].error
    IN  OrElse(payload.error, OrElse(first, "Failed to cancel subscription"))

cancelErrorMessage(payload) ==
    LET errors == IF payload.results.present
                  THEN SelectSeq(payload.results.items, FailedWithError)
                  ELSE <<>>
        first == IF errors = <<>> THEN undefined ELSE errors[1].error
    IN  OrElse(first, OrElse(payload.error, "Failed to cancel subscription"))

\* a cancelSubscription that does not look at the payload's success flag
cancelOutcomeIgnoresPayload(resp) ==
    IF resp.kind = "reject" THEN [threw |-> TRUE, thrown |-> resp.thrown]
    ELSE IF ~resp.ok
    THEN [threw |-> TRUE,
          thrown |-> Error(OrElse(resp.text,
                        "Failed to cancel subscription (" \o ToString(resp.status) \o ")"))]
    ELSE [threw |-> FALSE]

\* cancelSubscription after the DELETE has settled: what it throws, if anything
cancelOutcome(resp) ==
    IF resp.kind = "reject" THEN [threw |-> TRUE, thrown |-> resp.thrown]
    ELSE IF ~resp.ok
    THEN [threw |-> TRUE,
          thrown |-> Error(OrElse(resp.text,
                        "Failed to cancel subscription (" \o ToString(resp.status) \o ")"))]
    ELSE IF ~resp.payload.success
    THEN [threw |-> TRUE, thrown |-> Error(cancelErrorMessage(resp.payload))]
    ELSE [threw |-> FALSE]

\* ------------------------------------------------------------- refresh
\* a refresh() without its setLoading(true)
StartRefreshKeepsLoading(op, d, rest) ==
    /\ error' = null
    /\ IF Truthy(d)
       THEN /\ UNCHANGED <<loading, currentSubscription>>
            /\ ops' = Place([op EXCEPT !.pc = "awaitSign",
                                       !.getSignCall = [called |-> TRUE, deviceId |-> d,
                                                        additionalData |-> undefined]],
                            rest)
            /\ settled' = NoOp
       ELSE /\ loading' = FALSE
            /\ currentSubscription' = nullObj
            /\ ops' = rest
            /\ settled' = [op EXCEPT !.pc = "resolved"]

\* refresh() up to its first await, by an invocation op whose closure
\* captured deviceId d, the other waiting invocations being rest:
\* setLoading(true), then getSubscription() up to the signing call; without
\* a deviceId getSubscription returns at once and finally sets loading=false.
StartRefresh(op, d, rest) ==
    /\ error' = null
    /\ IF Truthy(d)
       THEN /\ loading' = TRUE
            /\ UNCHANGED currentSubscription
            /\ ops' = Place([op EXCEPT !.pc = "awaitSign",
                                       !.getSignCall = [called |-> TRUE, deviceId |-> d,
                                                        additionalData |-> undefined]],
                            rest)
            /\ settled' = NoOp
       ELSE /\ loading' = FALSE
            /\ currentSubscription' = nullObj
            /\ ops' = rest
            /\ settled' = [op EXCEPT !.pc = "resolved"]

\* a refresh() that drops the outcome of a fetch made for a deviceId that is
\* no longer the current one
SettleRefreshCurrentOnly(i, resp, outcome) ==
    /\ loading' = FALSE
    /\ ops' = Without(ops, i)
    /\ IF ops[i].deviceId # deviceId
       THEN /\ UNCHANGED <<error, currentSubscription>>
            /\ settled' = Settled(ops[i], "resolved", resp,
                                  IF outcome.threw THEN outcome.thrown ELSE nullObj)
       ELSE IF outcome.threw
       THEN /\ error' = errorString(outcome.thrown)
            /\ UNCHANGED currentSubscription
            /\ settled' = Settled(ops[i], "resolved", resp, outcome.thrown)
       ELSE /\ currentSubscription' = outcome.subscription
            /\ UNCHANGED error
            /\ settled' = Settled(ops[i], "resolved", resp, nullObj)

\* a refresh() whose finally block is missing on the failure path
SettleRefreshNoFinally(i, resp, outcome) ==
    /\ ops' = Without(ops, i)
    /\ IF outcome.threw
       THEN /\ error' = errorString(outcome.thrown)
            /\ UNCHANGED <<currentSubscription, loading>>
            /\ settled' = Settled(ops[i], "resolved", resp, outcome.thrown)
       ELSE /\ loading' = FALSE
            /\ currentSubscription' = outcome.subscription
            /\ UNCHANGED error
            /\ settled' = Settled(ops[i], "resolved", resp, nullObj)

\* a refresh() that drops the cached subscription when the fetch fails
SettleRefreshClears(i, resp, outcome) ==
    /\ loading' = FALSE
    /\ ops' = Without(ops, i)
    /\ IF outcome.threw
       THEN /\ error' = errorString(outcome.thrown)
            /\ currentSubscription' = nullObj
            /\ settled' = Settled(ops[i], "resolved", resp, outcome.thrown)
       ELSE /\ currentSubscription' = outcome.subscription
            /\ UNCHANGED error
            /\ settled' = Settled(ops[i], "resolved", resp, nullObj)

\* a refresh() without its catch block: the failure reaches the caller
SettleRefreshRethrows(i, resp, outcome) ==
    /\ loading' = FALSE
    /\ ops' = Without(ops, i)
    /\ IF outcome.threw
       THEN /\ UNCHANGED <<error, currentSubscription>>
            /\ settled' = Settled(ops[i], "rejected", resp, outcome.thrown)
       ELSE /\ currentSubscription' = outcome.subscription
            /\ UNCHANGED error
            /\ settled' = Settled(ops[i], "resolved", resp, nullObj)

\* the end of getSubscription and the catch and finally blocks of refresh(),
\* for the waiting invocation i, given what getSubscription threw or returned
\* after the response resp
SettleRefresh(i, resp, outcome) ==
    /\ loading' = FALSE
    /\ ops' = Without(ops, i)
    /\ IF outcome.threw
       THEN /\ error' = errorString(outcome.thrown)
            /\ UNCHANGED currentSubscription
            /\ settled' = Settled(ops[i], "resolved", resp, outcome.thrown)
       ELSE /\ currentSubscription' = outcome.subscription
            /\ UNCHANGED error
            /\ settled' = Settled(ops[i], "resolved", resp, nullObj)

\* the application calls refresh()
Refresh ==
    /\ mounted
    /\ NoneSettled
    /\ HasCapacity
    /\ StartRefresh([NoOp EXCEPT !.kind = "refresh", !.deviceId = deviceId], deviceId, ops)
    /\ UNCHANGED <<signerCalls, location, mounted, embedReady, user, deviceId, requestsPosted>>

\* getAuthHeadersAction({deviceId}) resolves: the GET is issued
GetSigned(i, r) ==
    /\ NoneSettled
    /\ ops[i].pc = "awaitSign"
    /\ ops' = Place([ops[i] EXCEPT
                        !.pc = "awaitGet",
                        !.getSignResult = r,
                        !.gets = @ + 1,
                        !.getRequest =
                            [issued |-> TRUE, method |-> "GET",
                             url |-> BaseUrl \o "/api/v1/subscription?appId=" \o AppId,
                             signature |-> r.signature, timestamp |-> r.timestamp]],
                    Without(ops, i))
    /\ UNCHANGED <<signerCalls, location, mounted, embedReady, user, deviceId, currentSubscription, loading, error,
                   requestsPosted, settled>>

\* a refresh() that swallows a failure of the signing callback
GetSignFailedUnrecorded(i, e) ==
    /\ NoneSettled
    /\ ops[i].pc = "awaitSign"
    /\ loading' = FALSE
    /\ ops' = Without(ops, i)
    /\ settled' = Settled(ops[i], "resolved", NoResponse, e)
    /\ UNCHANGED <<error, currentSubscription>>
    /\ UNCHANGED <<signerCalls, location, mounted, embedReady, user, deviceId, requestsPosted>>

\* getAuthHeadersAction({deviceId}) rejects: refresh catches
GetSignFailed(i, e) ==
    /\ NoneSettled
    /\ ops[i].pc = "awaitSign"
    /\ SettleRefresh(i, NoResponse, [threw |-> TRUE, thrown |-> e])
    /\ UNCHANGED <<signerCalls, location, mounted, embedReady, user, deviceId, requestsPosted>>

\* a fetch that issues its GET once more when the first attempt fails
GetRespondedRetries(i, resp) ==
    /\ NoneSettled
    /\ ops[i].pc = "awaitGet"
    /\ IF getSubscriptionOutcome(resp).threw /\ ops[i].gets < 2
       THEN /\ ops' = [ops EXCEPT ![i].gets = @ + 1]
            /\ UNCHANGED <<currentSubscription, loading, error, settled>>
       ELSE SettleRefresh(i, resp, getSubscriptionOutcome(resp))
    /\ UNCHANGED <<signerCalls, location, mounted, embedReady, user, deviceId, requestsPosted>>

\* the subscription GET settles
GetResponded(i, resp) ==
    /\ NoneSettled
    /\ ops[i].pc = "awaitGet"
    /\ SettleRefresh(i, resp, getSubscriptionOutcome(resp))
    /\ UNCHANGED <<signerCalls, location, mounted, embedReady, user, deviceId, requestsPosted>>

\* ---------------------------------------------------- cancelSubscription
\* throw new Error(...) before the first await: the returned promise rejects
\* a check that returns where the code throws
returnAtCall(op, e) == [op EXCEPT !.pc = "resolved"]

rejectAtCall(op, e) == [op EXCEPT !.pc = "rejected", !.thrown = e]

\* a cancelSubscription that clears the error field only once its
\* precondition checks have passed
CancelSubscriptionChecksFirst(subscriptionIds, appUrl) ==
    /\ mounted
    /\ NoneSettled
    /\ NoCancelWaiting
    /\ error' = IF cancelBranch(user, deviceId, appUrl) \in {"throwUser", "throwMissing"}
                THEN error ELSE null
    /\ LET op == [NoOp EXCEPT !.kind = "cancelSubscription", !.deviceId = deviceId,
                              !.user = user, !.subscriptionIds = subscriptionIds,
                              !.appUrl = appUrl]
           branch == cancelBranch(user, deviceId, appUrl)
       IN  CASE branch = "throwUser" ->
                  /\ settled' = rejectAtCall(op,
                                     Error("User must be authenticated to cancel subscription"))
                  /\ UNCHANGED ops
             [] branch = "sign" ->
                  /\ HasCapacity
                  /\ ops' = Place([op EXCEPT
                                      !.pc = "cancelAwaitSign",
                                      !.signCall =
                                          [called |-> TRUE, deviceId |-> deviceId,
                                           additionalData |->
                                               cancelAdditionalData(user, subscriptionIds)]],
                                  ops)
                  /\ UNCHANGED settled
             [] branch = "fallback" ->
                  /\ HasCapacity
                  /\ ops' = Place([op EXCEPT
                                      !.pc = "awaitDelete",
                                      !.deletes = @ + 1,
                                      !.request = fallbackDelete(user, subscriptionIds, appUrl)],
                                  ops)
                  /\ UNCHANGED settled
             [] branch = "throwMissing" ->
                  /\ settled' = rejectAtCall(op,
                                     Error("Either deviceId or appUrl is required to cancel subscription"))
                  /\ UNCHANGED ops
    /\ UNCHANGED <<signerCalls, location, mounted, embedReady, user, deviceId, currentSubscription, loading,
                   requestsPosted>>

\* the application calls cancelSubscription(subscriptionIds, appUrl): the
\* code up to its first await or throw
CancelSubscription(subscriptionIds, appUrl) ==
    /\ mounted
    /\ NoneSettled
    /\ NoCancelWaiting
    /\ error' = null
    /\ LET op == [NoOp EXCEPT !.kind = "cancelSubscription", !.deviceId = deviceId,
                              !.user = user, !.subscriptionIds = subscriptionIds,
                              !.appUrl = appUrl]
           branch == cancelBranch(user, deviceId, appUrl)
       IN  CASE branch = "throwUser" ->
                  /\ settled' = rejectAtCall(op,
                                     Error("User must be authenticated to cancel subscription"))
                  /\ UNCHANGED ops
             [] branch = "sign" ->
                  /\ HasCapacity
                  /\ ops' = Place([op EXCEPT
                                      !.pc = "cancelAwaitSign",
                                      !.signCall =
                                          [called |-> TRUE, deviceId |-> deviceId,
                                           additionalData |->
                                               cancelAdditionalData(user, subscriptionIds)]],
                                  ops)
                  /\ UNCHANGED settled
             [] branch = "fallback" ->
                  /\ HasCapacity
                  /\ ops' = Place([op EXCEPT
                                      !.pc = "awaitDelete",
                                      !.deletes = @ + 1,
                                      !.request = fallbackDelete(user, subscriptionIds, appUrl)],
                                  ops)
                  /\ UNCHANGED settled
             [] branch = "throwMissing" ->
                  /\ settled' = rejectAtCall(op,
                                     Error("Either deviceId or appUrl is required to cancel subscription"))
                  /\ UNCHANGED ops
    /\ UNCHANGED <<signerCalls, location, mounted, embedReady, user, deviceId, currentSubscription, loading,
                   requestsPosted>>

\* getAuthHeadersAction({deviceId, additionalData}) resolves: the DELETE is issued
CancelSigned(i, r) ==
    /\ NoneSettled
    /\ ops[i].pc = "cancelAwaitSign"
    /\ ops' = Place([ops[i] EXCEPT
                        !.pc = "awaitDelete",
                        !.signResult = r,
                        !.deletes = @ + 1,
                        !.request = signedDelete(ops[i].user, ops[i].deviceId,
                                                 ops[i].subscriptionIds, r)],
                    Without(ops, i))
    /\ UNCHANGED <<signerCalls, location, mounted, embedReady, user, deviceId, currentSubscription, loading, error,
                   requestsPosted, settled>>

\* getAuthHeadersAction rejects: the exception leaves cancelSubscription
CancelSignFailed(i, e) ==
    /\ NoneSettled
    /\ ops[i].pc = "cancelAwaitSign"
    /\ ops' = Without(ops, i)
    /\ settled' = Settled(ops[i], "rejected", NoResponse, e)
    /\ UNCHANGED <<signerCalls, location, mounted, embedReady, user, deviceId, currentSubscription, loading, error,
                   requestsPosted>>

\* a cancelSubscription that keeps the signature of its DELETE and sends the
\* GET that follows with it
DeleteRespondedReusesSignature(i, resp) ==
    /\ NoneSettled
    /\ ops[i].pc = "awaitDelete"
    /\ LET outcome == cancelOutcome(resp)
           next == [NoOp EXCEPT !.kind = "cancelSubscription",
                                !.deviceId = ops[i].deviceId,
                                !.user = ops[i].user,
                                !.appUrl = ops[i].appUrl,
                                !.deleteResponse = resp,
                                !.deletes = ops[i].deletes]
       IN  IF outcome.threw
           THEN /\ ops' = Without(ops, i)
                /\ settled' = Settled([ops[i] EXCEPT !.deleteResponse = resp],
                                       "rejected", resp, outcome.thrown)
                /\ UNCHANGED <<currentSubscription, loading, error>>
           ELSE IF ops[i].signResult \in SignResults
           THEN /\ error' = null
                /\ loading' = TRUE
                /\ UNCHANGED <<currentSubscription, settled>>
                /\ ops' = Place([next EXCEPT
                                    !.pc = "awaitGet",
                                    !.gets = 1,
                                    !.getRequest =
                                        [issued |-> TRUE, method |-> "GET",
                                         url |-> BaseUrl \o "/api/v1/subscription?appId=" \o AppId,
                                         signature |-> ops[i].signResult.signature,
                                         timestamp |-> ops[i].signResult.timestamp]],
                                Without(ops, i))
           ELSE StartRefresh(next, ops[i].deviceId, Without(ops, i))
    /\ UNCHANGED <<signerCalls, location, mounted, embedReady, user, deviceId, requestsPosted>>

\* the DELETE settles: throw, or await refresh() (which reads only the
\* captured deviceId: the record of the DELETE is dropped)
DeleteResponded(i, resp) ==
    /\ NoneSettled
    /\ ops[i].pc = "awaitDelete"
    /\ LET outcome == cancelOutcome(resp)
       IN  IF outcome.threw
           THEN /\ ops' = Without(ops, i)
                /\ settled' = Settled([ops[i] EXCEPT !.deleteResponse = resp],
                                       "rejected", resp, outcome.thrown)
                /\ UNCHANGED <<currentSubscription, loading, error>>
           ELSE StartRefresh([NoOp EXCEPT !.kind = "cancelSubscription",
                                          !.deviceId = ops[i].deviceId,
                                          !.user = ops[i].user,
                                          !.appUrl = ops[i].appUrl,
                                          !.deleteResponse = resp,
                                          !.deletes = ops[i].deletes],
                             ops[i].deviceId, Without(ops, i))
    /\ UNCHANGED <<signerCalls, location, mounted, embedReady, user, deviceId, requestsPosted>>

\* ------------------------------------------------------ redirectToConfirm
\* `${x}` in a template literal
templateString(x) ==
    IF x = undefined THEN "undefined" ELSE IF x = null THEN "null" ELSE x

\* a query parameter that is set without the test: an absent value is
\* serialized as the string "undefined"
setAlways(x) == IF x = undefined THEN "undefined" ELSE x

\* the value a query parameter gets from `if (x) searchParams.set(name, x)`
\* (undefined: the parameter is not set)
setIfTruthy(x) == IF Truthy(x) THEN x ELSE undefined

\* the init URL of the Safari fallback flow
initUrl(params) ==
    [navigated |-> TRUE, url |-> BaseUrl \o "/api/v1/subscription/init",
     searchParams |->
        [appId |-> params.appId, appName |-> params.appName,
         amountPerDay |-> params.amountPerDay,
         appUrl |-> setIfTruthy(params.appUrl), appLogo |-> setIfTruthy(params.appLogo),
         nextSuccess |-> params.nextSuccess, nextCancelled |-> params.nextCancelled,
         signatureCallbackUrl |-> templateString(params.appUrl) \o "/api/signature-callback",
         deviceId |-> undefined, signature |-> undefined, timestamp |-> undefined]]

\* the confirm URL of the signed flow
confirmUrl(params, d, r) ==
    [navigated |-> TRUE, url |-> BaseUrl \o "/confirm",
     searchParams |->
        [appId |-> params.appId, appName |-> params.appName,
         amountPerDay |-> params.amountPerDay,
         appUrl |-> setIfTruthy(params.appUrl), appLogo |-> setIfTruthy(params.appLogo),
         nextSuccess |-> params.nextSuccess, nextCancelled |-> params.nextCancelled,
         signatureCallbackUrl |-> undefined,
         deviceId |-> d, signature |-> r.signature, timestamp |-> r.timestamp]]

\* the application awaits one redirect before it starts the next
NoRedirectWaiting == \A i \in 1..Len(ops) : ops[i].kind # "redirectToConfirm"

\* the application calls redirectToConfirm(params): the code up to its
\* return or first await
RedirectToConfirm(params) ==
    /\ mounted
    /\ NoneSettled
    /\ NoRedirectWaiting
    /\ LET op == [NoOp EXCEPT !.kind = "redirectToConfirm", !.deviceId = deviceId,
                              !.params = params]
       IN  IF ~Truthy(deviceId)
           THEN /\ location' = initUrl(params)
                /\ settled' = [op EXCEPT !.pc = "resolved"]
                /\ UNCHANGED ops
           ELSE /\ HasCapacity
                /\ ops' = Place([op EXCEPT
                                    !.pc = "redirectAwaitSign",
                                    !.signCall = [called |-> TRUE, deviceId |-> deviceId,
                                                  additionalData |-> params.amountPerDay]],
                                ops)
                /\ UNCHANGED <<settled, location>>
    /\ UNCHANGED <<signerCalls, mounted, embedReady, user, deviceId, currentSubscription, loading, error,
                   requestsPosted>>

\* getAuthHeadersAction({deviceId, additionalData}) resolves: the page navigates
RedirectSigned(i, r) ==
    /\ NoneSettled
    /\ ops[i].pc = "redirectAwaitSign"
    /\ location' = confirmUrl(ops[i].params, ops[i].deviceId, r)
    /\ ops' = Without(ops, i)
    /\ settled' = [ops[i] EXCEPT !.pc = "resolved", !.signResult = r]
    /\ UNCHANGED <<signerCalls, mounted, embedReady, user, deviceId, currentSubscription, loading, error,
                   requestsPosted>>

\* a redirectToConfirm that falls back to the init URL when signing fails
RedirectSignFailedNavigates(i, e) ==
    /\ NoneSettled
    /\ ops[i].pc = "redirectAwaitSign"
    /\ ops' = Without(ops, i)
    /\ location' = initUrl(ops[i].params)
    /\ settled' = [ops[i] EXCEPT !.pc = "rejected", !.thrown = e]
    /\ UNCHANGED <<signerCalls, mounted, embedReady, user, deviceId, currentSubscription, loading, error,
                   requestsPosted>>

\* getAuthHeadersAction rejects: the exception leaves redirectToConfirm
RedirectSignFailed(i, e) ==
    /\ NoneSettled
    /\ ops[i].pc = "redirectAwaitSign"
    /\ ops' = Without(ops, i)
    /\ settled' = [ops[i] EXCEPT !.pc = "rejected", !.thrown = e]
    /\ UNCHANGED <<signerCalls, mounted, embedReady, user, deviceId, currentSubscription, loading, error,
                   requestsPosted, location>>

\* the caller's continuation has observed the settled promise; a page that
\* is navigating away runs no further continuation
Observe ==
    /\ ~NoneSettled
    /\ location = NoNavigation
    /\ settled' = NoOp
    /\ UNCHANGED <<signerCalls, location, mounted, embedReady, user, deviceId, currentSubscription, loading, error,
                   requestsPosted, ops>>

\* ------------------------------------------------- mount, messages, effects
\* the effects of the first commit, in order: reset, listener, request
\* effect, deviceId effect
Mount ==
    /\ ~mounted
    /\ mounted' = TRUE
    /\ error' = null
    /\ loading' = TRUE
    /\ requestsPosted' = requestsPosted + 1
    /\ currentSubscription' = nullObj
    /\ UNCHANGED <<embedReady, user, deviceId, ops, settled, location, signerCalls>>

\* a request effect that does not run again when embedReady changes
requestEffectOnce(wasReady, posted) == posted

\* the request effect after setEmbedReady(true): it runs again, and posts a
\* request into the frame, when embedReady has changed
requestEffect(wasReady, posted) == IF wasReady THEN posted ELSE posted + 1

\* a provider that sets loading=false when an auth message brings no deviceId
DeviceIdEffectSetsNotLoading(d) ==
    IF ~Truthy(d)
    THEN /\ currentSubscription' = nullObj
         /\ loading' = FALSE
         /\ UNCHANGED <<error, ops, settled>>
    ELSE /\ HasCapacity
         /\ StartRefresh([NoOp EXCEPT !.kind = "refresh", !.deviceId = d], d, ops)

\* a deviceId effect that never calls refresh()
DeviceIdEffectNoFetch(d) ==
    IF ~Truthy(d)
    THEN /\ currentSubscription' = nullObj
         /\ UNCHANGED <<loading, error, ops, settled>>
    ELSE UNCHANGED <<currentSubscription, loading, error, ops, settled>>

\* a deviceId effect that leaves currentSubscription alone
DeviceIdEffectKeeps(d) ==
    IF ~Truthy(d)
    THEN UNCHANGED <<currentSubscription, loading, error, ops, settled>>
    ELSE /\ HasCapacity
         /\ StartRefresh([NoOp EXCEPT !.kind = "refresh", !.deviceId = d], d, ops)

\* the deviceId effect, run by the commit in which deviceId (and with it
\* refresh) changed to d
DeviceIdEffect(d) ==
    IF ~Truthy(d)
    THEN /\ currentSubscription' = nullObj
         /\ UNCHANGED <<loading, error, ops, settled>>
    ELSE /\ HasCapacity
         /\ StartRefresh([NoOp EXCEPT !.kind = "refresh", !.deviceId = d], d, ops)

\* the message handler of the older build, which takes the ready message as
\* the end of loading
HandleMessageReadySettles(m) ==
    /\ mounted
    /\ NoneSettled
    /\ IF ~m.isObject \/ m.typeofType # "string"
       THEN UNCHANGED <<embedReady, user, deviceId, currentSubscription, loading, error,
                        requestsPosted, ops, settled>>
       ELSE IF m.type = "utilsio:embed:ready"
       THEN /\ embedReady' = TRUE
            /\ loading' = FALSE
            /\ requestsPosted' = requestEffect(embedReady, requestsPosted)
            /\ UNCHANGED <<user, deviceId, currentSubscription, error, ops, settled>>
       ELSE IF m.type = "utilsio:embed:auth"
       THEN /\ user' = OrNullObj(m.user)
            /\ deviceId' = OrNull(m.deviceId)
            /\ IF OrNull(m.deviceId) = deviceId
               THEN UNCHANGED <<currentSubscription, loading, error, ops, settled>>
               ELSE DeviceIdEffect(OrNull(m.deviceId))
            /\ UNCHANGED <<embedReady, requestsPosted>>
       ELSE UNCHANGED <<embedReady, user, deviceId, currentSubscription, loading, error,
                        requestsPosted, ops, settled>>
    /\ UNCHANGED <<signerCalls, location, mounted>>

\* the window "message" listener, with the re-render it causes and the
\* effects whose dependencies changed
HandleMessage(m) ==
    /\ mounted
    /\ NoneSettled
    /\ IF ~m.isObject \/ m.typeofType # "string"
       THEN UNCHANGED <<embedReady, user, deviceId, currentSubscription, loading, error,
                        requestsPosted, ops, settled>>
       ELSE IF m.type = "utilsio:embed:ready"
       THEN /\ embedReady' = TRUE
            /\ requestsPosted' = requestEffect(embedReady, requestsPosted)
            /\ UNCHANGED <<user, deviceId, currentSubscription, loading, error, ops, settled>>
       ELSE IF m.type = "utilsio:embed:auth"
       THEN /\ user' = OrNullObj(m.user)
            /\ deviceId' = OrNull(m.deviceId)
            /\ IF OrNull(m.deviceId) = deviceId
               THEN UNCHANGED <<currentSubscription, loading, error, ops, settled>>
               ELSE DeviceIdEffect(OrNull(m.deviceId))
            /\ UNCHANGED <<embedReady, requestsPosted>>
       ELSE UNCHANGED <<embedReady, user, deviceId, currentSubscription, loading, error,
                        requestsPosted, ops, settled>>
    /\ UNCHANGED <<signerCalls, location, mounted>>

\* a listener that drops the events whose origin is not the embed's, as the
\* older build does
handlerChecksOrigin(event) ==
    IF event.origin # BaseUrl
    THEN mounted /\ NoneSettled /\ UNCHANGED vars
    ELSE HandleMessage(event.data)

\* the listener called with a message event: event.origin is not read
handler(event) == HandleMessage(event.data)

Next ==
    \/ Mount
    \/ \E event \in MessageEvents : handler(event)
    \/ Refresh
    \/ \E i \in 1..Len(ops), r \in SignResults : GetSigned(i, r)
    \/ \E i \in 1..Len(ops), e \in Thrown : GetSignFailed(i, e)
    \/ \E i \in 1..Len(ops), resp \in GetResponses : GetResponded(i, resp)
    \/ \E subscriptionIds \in IdLists, appUrl \in AppUrls :
           CancelSubscription(subscriptionIds, appUrl)
    \/ \E i \in 1..Len(ops), r \in SignResults : CancelSigned(i, r)
    \/ \E i \in 1..Len(ops), e \in Thrown : CancelSignFailed(i, e)
    \/ \E i \in 1..Len(ops), resp \in DeleteResponses : DeleteResponded(i, resp)
    \/ Observe

Spec == Init /\ [][Next]_vars

\* the provider under an application that subscribes: it calls refresh and
\* redirectToConfirm, and no cancelSubscription
RedirectNext ==
    \/ Mount
    \/ \E event \in MessageEvents : handler(event)
    \/ Refresh
    \/ \E i \in 1..Len(ops), r \in SignResults : GetSigned(i, r)
    \/ \E i \in 1..Len(ops), e \in Thrown : GetSignFailed(i, e)
    \/ \E i \in 1..Len(ops), resp \in GetResponses : GetResponded(i, resp)
    \/ \E params \in RedirectParams : RedirectToConfirm(params)
    \/ \E i \in 1..Len(ops), r \in SignResults : RedirectSigned(i, r)
    \/ \E i \in 1..Len(ops), e \in Thrown : RedirectSignFailed(i, e)
    \/ Observe

RedirectSpec == Init /\ [][RedirectNext]_vars

\* the provider under an application that uses all three operations
BridgeNext ==
    \/ Mount
    \/ \E event \in MessageEvents : handler(event)
    \/ Refresh
    \/ \E i \in 1..Len(ops), r \in SignResults : GetSigned(i, r)
    \/ \E i \in 1..Len(ops), e \in Thrown : GetSignFailed(i, e)
    \/ \E i \in 1..Len(ops), resp \in GetResponses : GetResponded(i, resp)
    \/ \E subscriptionIds \in IdLists, appUrl \in AppUrls :
           CancelSubscription(subscriptionIds, appUrl)
    \/ \E i \in 1..Len(ops), r \in SignResults : CancelSigned(i, r)
    \/ \E i \in 1..Len(ops), e \in Thrown : CancelSignFailed(i, e)
    \/ \E i \in 1..Len(ops), resp \in DeleteResponses : DeleteResponded(i, resp)
    \/ \E params \in RedirectParams : RedirectToConfirm(params)
    \/ \E i \in 1..Len(ops), r \in SignResults : RedirectSigned(i, r)
    \/ \E i \in 1..Len(ops), e \in Thrown : RedirectSignFailed(i, e)
    \/ Observe

BridgeSpec == Init /\ [][BridgeNext]_vars

\* ------------------------------------------------------- server signer
\* A JS number and a JS string are kept apart (TLC compares neither with the
\* other): a timestamp is one of these records, undefinedObj or nullObj.
NumberValue(n) == [typeof |-> "number", number |-> n]
StringValue(str) == [typeof |-> "string", string |-> str]

\* String(timestamp) of a timestamp that is a number or a string
String(v) == IF v.typeof = "number" THEN ToString(v.number) ELSE v.string

\* a function call that returned, and one that threw new Error(message)
Returned(v) == [threw |-> FALSE, returned |-> v]
ThrewError(message) == [threw |-> TRUE, error |-> message]

DEFAULT_SCRYPT_PARAMS == [N |-> 2^14, r |-> 8, p |-> 1, keyLen |-> 32]

\* Buffer.from(salt, "hex") on the salts of SignerSalts: two hexadecimal
\* digits make one byte whatever their case, and decoding stops at the first
\* pair that is not hexadecimal
bufferFromHex(salt) ==
    CASE salt = "00ff" -> <<0, 255>>
      [] salt = "00FF" -> <<0, 255>>
      [] salt = "0a1b" -> <<10, 27>>
      [] salt = "zz" -> <<>>
      [] OTHER -> <<>>

\* crypto.scryptSync(password, salt, keylen, options): keylen bytes that
\* are a function of all the arguments (no two argument lists are assumed
\* to give the same bytes)
scryptSync(password, salt, keylen, options) ==
    [bytesOf |-> "scrypt", key |-> password, data |-> salt,
     options |-> options, length |-> keylen]

\* crypto.createHmac("sha256", key).update(message).digest(): 32 bytes that
\* are a function of key and message (HMAC collision resistance: no two
\* (key, message) pairs are assumed to give the same bytes)
hmacSha256(key, message) ==
    [bytesOf |-> "hmac-sha256", key |-> key, data |-> message,
     options |-> <<>>, length |-> 32]

\* buffer.toString("hex"): two digits per byte
toStringHex(buffer) == [hexOf |-> buffer, length |-> 2 * buffer.length]

\* the empty string where a hex string is expected
emptyHex == toStringHex([bytesOf |-> "", key |-> "", data |-> "",
                         options |-> <<>>, length |-> 0])

\* !x of a hex string or a nullish value
FalsyHex(x) == IF x \in {undefinedObj, nullObj} THEN TRUE ELSE x.length = 0

\* {...DEFAULT_SCRYPT_PARAMS, ...(params || {})}
mergedParams(params) ==
    LET given == IF TruthyObj(params) THEN params ELSE <<>>
    IN  [f \in DOMAIN DEFAULT_SCRYPT_PARAMS |->
            IF f \in DOMAIN given THEN given[f] ELSE DEFAULT_SCRYPT_PARAMS[f]]

deriveAppHashHexUnchecked(input) ==
    LET merged == mergedParams(input.params)
        saltBuffer == bufferFromHex(input.salt)
        derived == scryptSync(input.appSecret, saltBuffer, merged.keyLen,
                              [N |-> merged.N, r |-> merged.r, p |-> merged.p])
    IN  Returned(toStringHex(derived))

deriveAppHashHex(input) ==
    IF ~Truthy(input.appSecret) THEN ThrewError("appSecret is required")
    ELSE IF ~Truthy(input.salt) THEN ThrewError("salt is required")
    ELSE LET merged == mergedParams(input.params)
             saltBuffer == bufferFromHex(input.salt)
             derived == scryptSync(input.appSecret, saltBuffer, merged.keyLen,
                                   [N |-> merged.N, r |-> merged.r, p |-> merged.p])
         IN  Returned(toStringHex(derived))

buildSignatureMessageAlwaysAppends(input) ==
    IF ~Truthy(input.deviceId) THEN ThrewError("deviceId is required")
    ELSE IF ~Truthy(input.appId) THEN ThrewError("appId is required")
    ELSE IF input.timestamp \in {undefinedObj, nullObj, StringValue("")}
         THEN ThrewError("timestamp is required")
    ELSE LET ts == String(input.timestamp)
         IN  Returned(input.deviceId \o "-" \o input.appId \o "-" \o ts
                      \o "-" \o templateString(input.additionalData))

buildSignatureMessage(input) ==
    IF ~Truthy(input.deviceId) THEN ThrewError("deviceId is required")
    ELSE IF ~Truthy(input.appId) THEN ThrewError("appId is required")
    ELSE IF input.timestamp \in {undefinedObj, nullObj, StringValue("")}
         THEN ThrewError("timestamp is required")
    ELSE LET ts == String(input.timestamp)
         IN  Returned(input.deviceId \o "-" \o input.appId \o "-" \o ts
                      \o (IF Truthy(input.additionalData)
                          THEN "-" \o input.additionalData ELSE ""))

\* the four fields signRequest hands to buildSignatureMessage
messageInput(input) ==
    [deviceId |-> input.deviceId, appId |-> input.appId,
     timestamp |-> input.timestamp, additionalData |-> input.additionalData]

signRequest(input) ==
    IF FalsyHex(input.appHashHex) THEN ThrewError("appHashHex is required")
    ELSE LET message == buildSignatureMessage(messageInput(input))
         IN  IF message.threw THEN message
             ELSE Returned(toStringHex(hmacSha256(input.appHashHex, message.returned)))

\* --- the inputs the signer is called with
SignerSecrets == {"s3cret", "0ther", "", undefined}
SignerSalts == {"00ff", "00FF", "0a1b", "zz", "", undefined}
SignerParams == {undefinedObj, [keyLen |-> 16]}
DeriveKeyInputs ==
    [appSecret : SignerSecrets, salt : SignerSalts, params : SignerParams]

SignerDeviceIds == {"d1", "d1-a1", "", undefined}
SignerAppIds == {"a1", "a1-b", "b", "", undefined}
SignerTimestamps == {NumberValue(1000), StringValue("1000"), NumberValue(1001),
                     StringValue(""), undefinedObj, nullObj}
SignerAdditionalData == {undefined, "", "extra"}
SignRequestInputs ==
    [deviceId : SignerDeviceIds, appId : SignerAppIds,
     timestamp : SignerTimestamps, additionalData : SignerAdditionalData]

\* the keys handed to signRequest: two derived keys, the empty string, none
SignerKeys ==
    {deriveAppHashHex([appSecret |-> "s3cret", salt |-> "00ff",
                       params |-> undefinedObj]).returned,
     deriveAppHashHex([appSecret |-> "0ther", salt |-> "00ff",
                       params |-> undefinedObj]).returned,
     emptyHex, undefinedObj}
SignedInputs ==
    [appHashHex : SignerKeys,
     deviceId : SignerDeviceIds \ {""}, appId : SignerAppIds \ {"a1", ""},
     timestamp : SignerTimestamps \ {NumberValue(1001), StringValue(""), nullObj},
     additionalData : SignerAdditionalData]

\* --- a server that calls the signer, and then calls it once more
Called(fn, input, outcome) ==
    /\ Len(signerCalls) < 2
    /\ signerCalls' = Append(signerCalls, [fn |-> fn, input |-> input, outcome |-> outcome])
    /\ UNCHANGED <<mounted, embedReady, user, deviceId, currentSubscription,
                   loading, error, requestsPosted, ops, settled, location>>

CallDeriveAppHashHex(input) ==
    Called("deriveAppHashHex", input, deriveAppHashHex(input))

CallBuildSignatureMessage(input) ==
    Called("buildSignatureMessage", input, buildSignatureMessage(input))

CallSignRequest(input) ==
    Called("signRequest", input, signRequest(input))

SignerNext ==
    \/ \E input \in DeriveKeyInputs : CallDeriveAppHashHex(input)
    \/ \E input \in SignRequestInputs : CallBuildSignatureMessage(input)
    \/ \E input \in SignedInputs : CallSignRequest(input)

SignerSpec == Init /\ [][SignerNext]_vars

\* --- a server that signs, makes any other call of the signer, and signs again
RoundTripDeriveInputs ==
    [appSecret : {"s3cret", "0ther"}, salt : {"00ff", "00FF", "0a1b"},
     params : SignerParams]
\* the keys a server holds: what deriveAppHashHex returned for those inputs
RoundTripKeys == {deriveAppHashHex(input).returned : input \in RoundTripDeriveInputs}
RoundTripMessageInputs ==
    [deviceId : {"d1"}, appId : {"a1"}, timestamp : {NumberValue(1000)},
     additionalData : {undefined, "extra"}]
RoundTripSignInputs ==
    [appHashHex : RoundTripKeys, deviceId : {"d1"}, appId : {"a1"},
     timestamp : {NumberValue(1000)}, additionalData : {undefined, "extra"}]

RoundTripCalled(fn, input, outcome) ==
    /\ Len(signerCalls) < 3
    /\ signerCalls' = Append(signerCalls, [fn |-> fn, input |-> input, outcome |-> outcome])
    /\ UNCHANGED <<mounted, embedReady, user, deviceId, currentSubscription,
                   loading, error, requestsPosted, ops, settled, location>>

RoundTripDeriveAppHashHex(input) ==
    RoundTripCalled("deriveAppHashHex", input, deriveAppHashHex(input))

RoundTripBuildSignatureMessage(input) ==
    RoundTripCalled("buildSignatureMessage", input, buildSignatureMessage(input))

\* a signer that keeps the key it derived last and signs with it
RoundTripSignRequestKeepsKey(input) ==
    LET derived == {i \in 1..Len(signerCalls) : signerCalls[i].fn = "deriveAppHashHex"}
        last == CHOOSE i \in derived : \A j \in derived : j <= i
    IN  RoundTripCalled("signRequest", input,
            IF derived = {} THEN signRequest(input)
            ELSE signRequest([input EXCEPT !.appHashHex = signerCalls[last].outcome.returned]))

RoundTripSignRequest(input) ==
    RoundTripCalled("signRequest", input, signRequest(input))

RoundTripNext ==
    \/ \E input \in RoundTripDeriveInputs : RoundTripDeriveAppHashHex(input)
    \/ \E input \in RoundTripMessageInputs : RoundTripBuildSignatureMessage(input)
    \/ \E input \in RoundTripSignInputs : RoundTripSignRequest(input)

RoundTripSpec == Init /\ [][RoundTripNext]_vars

\* ------------------------------------------------------------ properties
\* every invocation the state knows of: the waiting ones and the one that
\* has just settled
Invocations == {ops[i] : i \in 1..Len(ops)} \cup ({settled} \ {NoOp})

\* nothing is in flight and nothing is left to observe
Quiet == ops = <<>> /\ NoneSettled

\* a settled invocation whose subscription fetch (signing call or GET) failed
FetchFailed(op) == op.pc = "resolved" /\ op.thrown # nullObj

\* a GET response carrying success=true
SuccessResponse(resp) == resp.kind = "http" /\ resp.ok /\ resp.payload.success

\* C1: after an auth message whose deviceId is null has been received, the
\* state settles to loading=false and currentSubscription=null. A known user
\* with an unknown deviceId tells that the last auth message carried a null
\* deviceId; the state has settled when nothing is in flight.
C1_AuthNullSettles ==
    (mounted /\ TruthyObj(user) /\ ~Truthy(deviceId) /\ Quiet)
        => (~loading /\ currentSubscription = nullObj)

C3_CancelledNeverStored ==
    /\ currentSubscription # nullObj => ~Truthy(currentSubscription.cancelledAt)
    /\ (settled.pc = "resolved" /\ SuccessResponse(settled.response)
          /\ (~TruthyObj(settled.response.payload.subscription)
                \/ Truthy(settled.response.payload.subscription.cancelledAt)))
         => currentSubscription = nullObj

\* C3 witness: a response carrying a cancelled subscription has been handled
C3_Witness ==
    /\ settled.pc = "resolved"
    /\ SuccessResponse(settled.response)
    /\ TruthyObj(settled.response.payload.subscription)
    /\ Truthy(settled.response.payload.subscription.cancelledAt)
    /\ currentSubscription = nullObj

\* C4: every subscription fetch the bridge started ends with loading=false
\* whatever its outcome: at the moment the fetch settles (success, signing
\* failure, rejected or non-2xx GET, success=false payload) loading is false.
C4_FetchEndsNotLoading ==
    (settled.kind \in {"refresh", "cancelSubscription"} /\ settled.pc = "resolved")
        => ~loading

\* C4 witness: a fetch has ended in a failure and loading is false
C4_Witness ==
    /\ FetchFailed(settled)
    /\ settled.response.kind = "http"
    /\ ~settled.response.ok
    /\ ~loading

\* C5: when a subscription fetch fails the error field is set to the failure
\* message and loading to false, while user, deviceId and currentSubscription
\* keep the values they had.
C5_FailureKeepsState ==
    [][FetchFailed(settled')
          => /\ error' = errorString(settled'.thrown)
             /\ ~loading'
             /\ UNCHANGED <<user, deviceId, currentSubscription>>]_vars

\* C5 witness: a fetch has failed while a subscription was cached
C5_Witness ==
    /\ FetchFailed(settled)
    /\ currentSubscription # nullObj
    /\ error = errorString(settled.thrown)

\* C6: refresh() never propagates an exception: its promise resolves, and a
\* failure of the signing callback or of the GET is recorded in error as a
\* string.
C6_RefreshNeverThrows ==
    settled.kind = "refresh"
        => /\ settled.pc = "resolved"
           /\ settled.thrown # nullObj
                => (error = errorString(settled.thrown) /\ error # null)

\* C6 witness: the signing callback threw a value that is not an Error and
\* refresh() resolved with its string form in error
C6_Witness ==
    /\ settled.kind = "refresh"
    /\ settled.pc = "resolved"
    /\ settled.thrown = [isError |-> FALSE, value |-> 42]
    /\ error = "42"

\* the rearrangements of a sequence
Rearrangements(seq) ==
    {[i \in 1..Len(seq) |-> seq[p[i]]] : p \in Permutations(1..Len(seq))}

\* seq is in ascending lexicographic order
Ascending(seq) == \A i \in 1..(Len(seq) - 1) : ~StringLess(seq[i + 1], seq[i])

\* C7: in cancelSubscription with a known deviceId the additionalData given
\* to the signing callback is [user.id, ...subscriptionIds] in ascending
\* lexicographic order joined with commas, the same string for every
\* permutation of subscriptionIds; user "u1" with ["s2","s1"] gives "s1,s2,u1".
C7_AdditionalDataSorted ==
    /\ cancelAdditionalData([id |-> "u1"], <<"s2", "s1">>) = "s1,s2,u1"
    /\ \A op \in Invocations :
          (op.kind = "cancelSubscription" /\ op.signCall.called)
             => /\ \E t \in Rearrangements(<<op.user.id>> \o op.subscriptionIds) :
                      Ascending(t) /\ op.signCall.additionalData = join(t, ",")
                /\ \A q \in Rearrangements(op.subscriptionIds) :
                      cancelAdditionalData(op.user, q) = op.signCall.additionalData

\* C7 witness: a cancellation of ["v1","s2"] by user u1 is waiting for the
\* signature of "s2,u1,v1"
C7_Witness ==
    \E op \in Invocations :
        /\ op.pc = "cancelAwaitSign"
        /\ op.user = [id |-> "u1"]
        /\ op.subscriptionIds = <<"v1", "s2">>
        /\ op.signCall = [called |-> TRUE, deviceId |-> op.deviceId,
                          additionalData |-> "s2,u1,v1"]

\* C8: cancelSubscription called with user known, deviceId unknown and no
\* appUrl throws before any network call: the invocation is rejected without
\* a signing-callback call and without a DELETE request.
C8_NeitherDeviceIdNorAppUrl ==
    \A op \in Invocations :
        (op.kind = "cancelSubscription" /\ TruthyObj(op.user)
            /\ ~Truthy(op.deviceId) /\ ~Truthy(op.appUrl))
          => /\ op = settled
             /\ op.pc = "rejected"
             /\ op.thrown = Error("Either deviceId or appUrl is required to cancel subscription")
             /\ ~op.signCall.called
             /\ ~op.request.issued

\* C8 witness: such a call, made with an empty appUrl, has thrown
C8_Witness ==
    /\ settled.kind = "cancelSubscription"
    /\ settled.pc = "rejected"
    /\ TruthyObj(settled.user)
    /\ ~Truthy(settled.deviceId)
    /\ settled.appUrl = ""
    /\ \A i \in 1..Len(ops) : ops[i].kind # "cancelSubscription"

\* the DELETE of the signed flow: deviceId in the body, signature and
\* timestamp from the signing callback, no signatureCallbackUrl
SignedShape(op) ==
    /\ op.signCall.called
    /\ op.signCall.deviceId = op.deviceId
    /\ op.signResult \in SignResults
    /\ op.request.signature = op.signResult.signature
    /\ op.request.timestamp = op.signResult.timestamp
    /\ op.request.body.deviceId = op.deviceId
    /\ op.request.body.signatureCallbackUrl = undefined
    /\ ~op.request.body.useSafariFallback

\* the DELETE of the callback flow: signatureCallbackUrl derived from appUrl
\* and the fallback flag, no deviceId, no signature headers, no signing call
FallbackShape(op) ==
    /\ Truthy(op.appUrl)
    /\ ~op.signCall.called
    /\ op.request.signature = undefined
    /\ op.request.timestamp = undefined
    /\ op.request.body.deviceId = undefined
    /\ op.request.body.signatureCallbackUrl = op.appUrl \o "/api/signature-callback"
    /\ op.request.body.useSafariFallback

\* C9: every DELETE request of cancelSubscription has the signed shape when
\* deviceId is known, whether or not appUrl is given, and the callback shape
\* when deviceId is unknown and appUrl is given.
C9_DeleteShapes ==
    \A op \in Invocations :
        op.request.issued
          => /\ op.request.method = "DELETE"
             /\ op.request.body.userId = op.user.id
             /\ op.request.body.subscriptionIds = op.subscriptionIds
             /\ IF Truthy(op.deviceId) THEN SignedShape(op) ELSE FallbackShape(op)

\* C9 witness: a signed DELETE is out although appUrl was given too
C9_Witness ==
    \E op \in Invocations :
        /\ op.request.issued
        /\ Truthy(op.deviceId)
        /\ Truthy(op.appUrl)
        /\ SignedShape(op)

\* C10: cancelSubscription with user unknown throws, whatever deviceId and
\* appUrl are, without a signing-callback call and without a DELETE request.
C10_CancelRequiresUser ==
    \A op \in Invocations :
        (op.kind = "cancelSubscription" /\ ~TruthyObj(op.user))
          => /\ op = settled
             /\ op.pc = "rejected"
             /\ op.thrown = Error("User must be authenticated to cancel subscription")
             /\ ~op.signCall.called
             /\ ~op.request.issued

\* C10 witness: the call has thrown for want of a user although deviceId is
\* known and appUrl is given
C10_Witness ==
    /\ settled.kind = "cancelSubscription"
    /\ settled.pc = "rejected"
    /\ ~TruthyObj(settled.user)
    /\ Truthy(settled.deviceId)
    /\ Truthy(settled.appUrl)

\* a cancelSubscription that has just thrown on a 2xx DELETE payload with
\* success=false
ThrewOnPayload(op) ==
    /\ op.kind = "cancelSubscription"
    /\ op.pc = "rejected"
    /\ op.response.kind = "http"
    /\ op.response.ok
    /\ ~op.response.payload.success

\* the positions of the failed items of a results array that carry an error
FailedItems(results) ==
    IF results.present
    THEN {i \in 1..Len(results.items) :
            ~results.items[i].success /\ Truthy(results.items[i].error)}
    ELSE {}

\* C11: when the DELETE response is 2xx with success=false, cancelSubscription
\* throws the error of the first failed item of results that has one, else
\* the top-level error, else "Failed to cancel subscription".
C11_CancelErrorPriority ==
    ThrewOnPayload(settled)
      => LET payload == settled.response.payload
             failed == FailedItems(payload.results)
         IN  /\ settled.thrown.isError
             /\ settled.thrown.message =
                  IF failed # {}
                  THEN payload.results.items[
                          CHOOSE i \in failed : \A j \in failed : i <= j].error
                  ELSE IF Truthy(payload.error) THEN payload.error
                  ELSE "Failed to cancel subscription"

\* C11 witness: the second item is the first failed one with an error, a
\* top-level error is present too, and the item's error was thrown
C11_Witness ==
    /\ ThrewOnPayload(settled)
    /\ FailedItems(settled.response.payload.results) = {2}
    /\ settled.response.payload.error = "cancel failed"
    /\ settled.thrown = Error("item failed")

\* C11 witness of the lower priorities: without an item error the top-level
\* error, or else the generic message, was thrown
C11_WitnessGeneric ==
    /\ ThrewOnPayload(settled)
    /\ FailedItems(settled.response.payload.results) = {}
    /\ settled.response.payload.results.present
    /\ ~Truthy(settled.response.payload.error)
    /\ settled.thrown = Error("Failed to cancel subscription")

\* a DELETE response that is 2xx with success=true
DeleteSucceeded(resp) == resp.kind = "http" /\ resp.ok /\ resp.payload.success

\* a cancelSubscription invocation that has reached its refresh()
InRefresh(op) ==
    /\ op.kind = "cancelSubscription"
    /\ op.pc \in {"awaitSign", "awaitGet", "resolved"}

\* the number of subscription fetches under way
FetchesWaiting == Cardinality({i \in 1..Len(ops) : ops[i].pc \in {"awaitSign", "awaitGet"}})

\* C12: cancelSubscription runs refresh() exactly when the DELETE succeeded,
\* and only after its response; on every failure the exception reaches the
\* caller, no refresh starts and the failure is not written to error.
C12_RefreshIffDeleteSucceeded ==
    [][/\ \A op \in Invocations' :
             op.kind = "cancelSubscription"
                => /\ InRefresh(op) <=> DeleteSucceeded(op.deleteResponse)
                   /\ (op.pc = "awaitSign" => op.getSignCall.called)
                   /\ (op.pc = "resolved" /\ Truthy(op.deviceId))
                         => (op.response # NoResponse \/ op.thrown # nullObj)
       /\ (settled' # NoOp /\ settled'.kind = "cancelSubscription" /\ settled'.pc = "rejected")
             => /\ settled'.thrown # nullObj
                /\ UNCHANGED <<loading, currentSubscription>>
                /\ error' \in {error, null}
                /\ FetchesWaiting' = FetchesWaiting]_vars

\* C12 witness: a cancellation whose DELETE succeeded has run its refresh,
\* whose GET has been answered, and has resolved
C12_Witness ==
    /\ settled.kind = "cancelSubscription"
    /\ settled.pc = "resolved"
    /\ DeleteSucceeded(settled.deleteResponse)
    /\ Truthy(settled.deviceId)
    /\ settled.response.kind = "http"

\* C12 witness of a failure: the DELETE was answered with success=false, the
\* call threw and error holds no message
C12_WitnessFailure ==
    /\ ThrewOnPayload(settled)
    /\ error = null
    /\ ops = <<>>

\* the query parameters every redirect carries are those of params
CarriesParams(url, params) ==
    /\ url.searchParams.appId = params.appId
    /\ url.searchParams.appName = params.appName
    /\ url.searchParams.amountPerDay = params.amountPerDay
    /\ url.searchParams.nextSuccess = params.nextSuccess
    /\ url.searchParams.nextCancelled = params.nextCancelled

\* the init URL: a signatureCallbackUrl, no deviceId, signature or timestamp
InitTarget(url) ==
    /\ url.url = BaseUrl \o "/api/v1/subscription/init"
    /\ url.searchParams.signatureCallbackUrl # undefined
    /\ url.searchParams.deviceId = undefined
    /\ url.searchParams.signature = undefined
    /\ url.searchParams.timestamp = undefined

\* the confirm URL for deviceId d and the signing result r
ConfirmTarget(url, d, r) ==
    /\ url.url = BaseUrl \o "/confirm"
    /\ url.searchParams.signatureCallbackUrl = undefined
    /\ url.searchParams.deviceId = d
    /\ url.searchParams.signature = r.signature
    /\ url.searchParams.timestamp = r.timestamp

\* C13: redirectToConfirm navigates to one target per call: with deviceId
\* unknown to the init URL, carrying the parameters and a
\* signatureCallbackUrl, without a signing call; with deviceId known to the
\* confirm URL, carrying deviceId and the signature and timestamp the signing
\* callback returned for additionalData = amountPerDay. A call whose signing
\* failed, or is still waiting, has not navigated.
C13_RedirectTargets ==
    /\ \A i \in 1..Len(ops) : ops[i].kind = "redirectToConfirm" => ~location.navigated
    /\ settled.kind = "redirectToConfirm"
         => /\ settled.pc \in {"resolved", "rejected"}
            /\ settled.pc = "rejected"
                 => (~location.navigated /\ settled.signCall.called
                       /\ settled.thrown \in Thrown)
            /\ settled.pc = "resolved"
                 => /\ location.navigated
                    /\ CarriesParams(location, settled.params)
                    /\ IF ~Truthy(settled.deviceId)
                       THEN InitTarget(location) /\ ~settled.signCall.called
                       ELSE /\ settled.signResult \in SignResults
                            /\ ConfirmTarget(location, settled.deviceId, settled.signResult)
                            /\ settled.signCall =
                                 [called |-> TRUE, deviceId |-> settled.deviceId,
                                  additionalData |-> settled.params.amountPerDay]
    /\ location.navigated => (settled.kind = "redirectToConfirm" /\ settled.pc = "resolved")

\* C13 witness: the page has navigated to the confirm URL with the signature
\* obtained for amountPerDay
C13_Witness ==
    /\ location.navigated
    /\ Truthy(settled.deviceId)
    /\ ConfirmTarget(location, settled.deviceId, settled.signResult)
    /\ settled.signCall.additionalData = "0.5"

\* C13 witness of the other flow: the page has navigated to the init URL
C13_WitnessInit ==
    /\ location.navigated
    /\ ~Truthy(settled.deviceId)
    /\ InitTarget(location)
    /\ ~settled.signCall.called

\* C13 witness of a failure: the signing callback failed and the page stays
C13_WitnessFailure ==
    /\ settled.kind = "redirectToConfirm"
    /\ settled.pc = "rejected"
    /\ ~location.navigated

\* C14: receiving a ready message makes the bridge post a request message
\* into the frame: the first ready receipt is followed by a request send.
C14_ReadyThenRequest ==
    [][(~embedReady /\ embedReady') => requestsPosted' = requestsPosted + 1]_vars

\* C14 witness: the ready message has been received and a request has been
\* posted after the one of the mount
C14_Witness == embedReady /\ requestsPosted = 2

\* the default session state
Fresh ==
    /\ loading = TRUE
    /\ user = nullObj
    /\ deviceId = null
    /\ currentSubscription = nullObj
    /\ error = null

\* C15: the bridge starts with loading=true and user, deviceId,
\* currentSubscription and error null, and its mount effects leave these
\* values in place: they hold until the first message or application call.
C15_FreshDefaults ==
    /\ mounted = FALSE
    /\ Fresh
    /\ [][~mounted => Fresh']_vars

\* C15 witness: the provider is mounted, nothing has arrived or been called,
\* and the defaults hold
C15_Witness ==
    /\ mounted
    /\ Fresh
    /\ ~embedReady
    /\ requestsPosted = 1
    /\ Quiet

\* a refresh() whose fetch (signing call or GET) has just completed
FetchCompleted(op) ==
    /\ op.kind \in {"refresh", "cancelSubscription"}
    /\ op.pc = "resolved"
    /\ (op.response # NoResponse \/ op.thrown # nullObj)

\* C16 as claimed: after overlapping refresh() calls have all completed the
\* state is the one written by the response that resolved last: the error
\* of its failure, or its subscription with no error.
C16_LastResponseDecidesState ==
    [][(FetchCompleted(settled') /\ FetchesWaiting' = 0)
          => /\ loading' = FALSE
             /\ IF settled'.thrown # nullObj
                THEN error' = errorString(settled'.thrown)
                ELSE /\ currentSubscription'
                          = getSubscriptionOutcome(settled'.response).subscription
                     /\ error' = null]_vars

\* C16 amended: refresh() calls may overlap, and each response overwrites,
\* when it resolves and whichever call was started first, the field it
\* writes: currentSubscription on success, error on failure, and loading
\* becomes false; the other field keeps what an earlier response left.
C16_LastResponseWins ==
    [][FetchCompleted(settled')
          => /\ loading' = FALSE
             /\ IF settled'.thrown # nullObj
                THEN /\ error' = errorString(settled'.thrown)
                     /\ UNCHANGED currentSubscription
                ELSE /\ currentSubscription'
                          = getSubscriptionOutcome(settled'.response).subscription
                     /\ UNCHANGED error]_vars

\* C16 witness: of two overlapping fetches the one started first, for the
\* earlier deviceId d1, has resolved last, after the one for d2, and its
\* subscription is the current one
C16_Witness ==
    /\ FetchCompleted(settled)
    /\ settled.deviceId = "d1"
    /\ deviceId = "d2"
    /\ FetchesWaiting = 0
    /\ currentSubscription # nullObj

\* C16 witness of the overlap: two fetches are in flight at the same time
C16_WitnessOverlap == FetchesWaiting = 2

\* C16 witness of a mixed state: the last response stored a subscription
\* while the error of an earlier failed response is still set
C16_WitnessMixed ==
    /\ FetchCompleted(settled)
    /\ settled.thrown = nullObj
    /\ FetchesWaiting = 0
    /\ currentSubscription # nullObj
    /\ error # null

\* C17: no network call is retried: an invocation of refresh() issues at
\* most one GET and no DELETE, an invocation of cancelSubscription at most
\* one DELETE and, after it succeeded, at most one GET; an invocation that
\* has failed has issued no second request.
C17_NoRetries ==
    \A op \in Invocations :
        /\ op.gets <= 1
        /\ op.deletes <= 1
        /\ op.kind = "refresh" => op.deletes = 0
        /\ op.kind = "redirectToConfirm" => (op.gets = 0 /\ op.deletes = 0)
        /\ (op.kind = "cancelSubscription" /\ op.gets = 1)
              => (op.deletes = 1 /\ DeleteSucceeded(op.deleteResponse))
        /\ op.gets = (IF op.pc = "awaitGet" \/ (op = settled /\ op.response # NoResponse
                                                  /\ op.response # op.deleteResponse)
                      THEN 1 ELSE 0)

\* C17 witness: a refresh whose only GET failed has ended, and nothing is in
\* flight
C17_Witness ==
    /\ settled.kind = "refresh"
    /\ FetchFailed(settled)
    /\ settled.response.kind = "http"
    /\ settled.gets = 1
    /\ ops = <<>>

\* C17 witness of a cancellation: its only DELETE failed and it has ended
\* without a GET
C17_WitnessCancel ==
    /\ settled.kind = "cancelSubscription"
    /\ settled.pc = "rejected"
    /\ settled.deletes = 1
    /\ settled.gets = 0
    /\ ops = <<>>

\* ------------------------------------------------- server signer: claims
\* the positions in signerCalls of the calls to one function of the signer
CallsOf(fn) == {i \in 1..Len(signerCalls) : signerCalls[i].fn = fn}

\* the call of buildSignatureMessage with these four arguments
BuildCall(d, a, ts, ad) ==
    [deviceId |-> d, appId |-> a, timestamp |-> ts, additionalData |-> ad]

\* the three required arguments are there: none is absent, none is empty
Complete(input) ==
    /\ input.deviceId \notin {undefined, ""}
    /\ input.appId \notin {undefined, ""}
    /\ input.timestamp \notin {undefinedObj, nullObj, StringValue("")}

\* a timestamp as it is written: the digits of a number, a string as it is
AsWritten(ts) == IF ts.typeof = "string" THEN ts.string ELSE ToString(ts.number)

\* C18: buildCanonicalMessage returns deviceId, appId and the timestamp as
\* written, joined by "-", and appends "-" and additionalData only when
\* additionalData is provided and non-empty: ("d1","a1",1000) gives
\* "d1-a1-1000", ("d1","a1",1000,"extra") gives "d1-a1-1000-extra", and an
\* empty additionalData gives the message of an absent one.
C18_CanonicalMessage ==
    /\ \A i \in CallsOf("buildSignatureMessage") :
        LET c == signerCalls[i]
        IN  /\ c.input = BuildCall("d1", "a1", NumberValue(1000), undefined)
                  => c.outcome = Returned("d1-a1-1000")
            /\ c.input = BuildCall("d1", "a1", NumberValue(1000), "extra")
                  => c.outcome = Returned("d1-a1-1000-extra")
            /\ Complete(c.input) =>
                  LET joined == c.input.deviceId \o "-" \o c.input.appId \o "-"
                                \o AsWritten(c.input.timestamp)
                  IN  /\ ~c.outcome.threw
                      /\ c.input.additionalData \in {undefined, ""}
                            => c.outcome.returned = joined
                      /\ c.input.additionalData \notin {undefined, ""}
                            => c.outcome.returned = joined \o "-" \o c.input.additionalData
    /\ \A i, j \in CallsOf("buildSignatureMessage") :
        (/\ Complete(signerCalls[i].input)
         /\ signerCalls[i].input.additionalData = undefined
         /\ signerCalls[j].input = [signerCalls[i].input EXCEPT !.additionalData = ""])
            => signerCalls[j].outcome = signerCalls[i].outcome

\* the server has built the message of ("d1","a1",1000,"extra") and then the
\* message of the same arguments with an empty additionalData
C18_Witness ==
    /\ Len(signerCalls) = 2
    /\ signerCalls[1].fn = "buildSignatureMessage"
    /\ signerCalls[1].input = BuildCall("d1", "a1", NumberValue(1000), "extra")
    /\ signerCalls[1].outcome = Returned("d1-a1-1000-extra")
    /\ signerCalls[2].fn = "buildSignatureMessage"
    /\ signerCalls[2].input = BuildCall("d1", "a1", NumberValue(1000), "")
    /\ signerCalls[2].outcome = Returned("d1-a1-1000")

\* the server has built the message of a call without additionalData and
\* then the message of the same call with an empty one
C18_WitnessEmptyAsAbsent ==
    /\ Len(signerCalls) = 2
    /\ signerCalls[1].fn = "buildSignatureMessage"
    /\ signerCalls[2].fn = "buildSignatureMessage"
    /\ Complete(signerCalls[1].input)
    /\ signerCalls[1].input.additionalData = undefined
    /\ signerCalls[2].input = [signerCalls[1].input EXCEPT !.additionalData = ""]
    /\ signerCalls[2].outcome = signerCalls[1].outcome

\* additionalData as the caller means it: an empty one is an absent one
Provided(ad) == IF ad = "" THEN undefined ELSE ad

\* two complete inputs differ in a component: another deviceId, another
\* appId, a timestamp written differently, or another additionalData (1000
\* and "1000" are one timestamp, an absent and an empty additionalData are
\* one additionalData)
DifferInComponent(x, y) ==
    \/ x.deviceId # y.deviceId
    \/ x.appId # y.appId
    \/ AsWritten(x.timestamp) # AsWritten(y.timestamp)
    \/ Provided(x.additionalData) # Provided(y.additionalData)

\* C19: under one derived key, sign yields the same signature for identical
\* inputs and a different signature whenever any of deviceId, appId,
\* timestamp or additionalData differs: two inputs that differ in any
\* component produce different canonical messages.
C19_DistinctInputsDistinctSignatures ==
    /\ \A i, j \in CallsOf("signRequest") :
        LET x == signerCalls[i]
            y == signerCalls[j]
        IN  (/\ ~x.outcome.threw /\ ~y.outcome.threw
             /\ x.input.appHashHex = y.input.appHashHex)
               => /\ x.input = y.input => x.outcome = y.outcome
                  /\ DifferInComponent(x.input, y.input)
                        => x.outcome.returned # y.outcome.returned
    /\ \A i, j \in CallsOf("buildSignatureMessage") :
        LET x == signerCalls[i]
            y == signerCalls[j]
        IN  (/\ ~x.outcome.threw /\ ~y.outcome.threw
             /\ DifferInComponent(x.input, y.input))
               => x.outcome.returned # y.outcome.returned

\* the call was rejected: it threw an Error naming the missing input, and
\* returned nothing
Rejected(c) ==
    /\ c.outcome.threw
    /\ DOMAIN c.outcome = {"threw", "error"}
    /\ c.outcome.error \in {"appSecret is required", "salt is required",
                            "deviceId is required", "appId is required",
                            "timestamp is required", "appHashHex is required"}

\* C20: the signer rejects missing input with a validation error and
\* produces no output: deriveKey fails when appSecret or salt is empty,
\* buildCanonicalMessage fails when deviceId, appId or timestamp is absent or
\* empty, and sign fails when derivedKey is empty or when any of deviceId,
\* appId, timestamp is absent.
C20_MissingInputRejected ==
    /\ \A i \in CallsOf("deriveAppHashHex") :
        (signerCalls[i].input.appSecret \in {"", undefined}
            \/ signerCalls[i].input.salt \in {"", undefined})
           => Rejected(signerCalls[i])
    /\ \A i \in CallsOf("buildSignatureMessage") :
        ~Complete(signerCalls[i].input) => Rejected(signerCalls[i])
    /\ \A i \in CallsOf("signRequest") :
        (signerCalls[i].input.appHashHex \in {emptyHex, undefinedObj}
            \/ signerCalls[i].input.deviceId = undefined
            \/ signerCalls[i].input.appId = undefined
            \/ signerCalls[i].input.timestamp = undefinedObj)
           => Rejected(signerCalls[i])

\* the server has called deriveKey with an empty appSecret and then sign
\* with an empty derived key, and both calls threw
C20_Witness ==
    /\ Len(signerCalls) = 2
    /\ signerCalls[1].fn = "deriveAppHashHex"
    /\ signerCalls[1].input.appSecret = ""
    /\ signerCalls[1].outcome = ThrewError("appSecret is required")
    /\ signerCalls[2].fn = "signRequest"
    /\ signerCalls[2].input.appHashHex = emptyHex
    /\ Complete(signerCalls[2].input)
    /\ signerCalls[2].outcome = ThrewError("appHashHex is required")

\* the server has called buildCanonicalMessage without a timestamp and then
\* sign, under a derived key, without a deviceId, and both calls threw
C20_WitnessComponents ==
    /\ Len(signerCalls) = 2
    /\ signerCalls[1].fn = "buildSignatureMessage"
    /\ signerCalls[1].input.deviceId = "d1"
    /\ signerCalls[1].input.appId = "a1"
    /\ signerCalls[1].input.timestamp = undefinedObj
    /\ signerCalls[1].outcome = ThrewError("timestamp is required")
    /\ signerCalls[2].fn = "signRequest"
    /\ ~FalsyHex(signerCalls[2].input.appHashHex)
    /\ signerCalls[2].input.deviceId = undefined
    /\ signerCalls[2].outcome = ThrewError("deviceId is required")

\* ------------------------------------------------ signer round trip: claims
\* the output length the caller asked for: params.keyLen, or the default
RequestedKeyLen(input) ==
    IF input.params = undefinedObj THEN 32 ELSE input.params.keyLen

C21_WitnessDerive ==
    /\ Len(signerCalls) = 3
    /\ signerCalls[1].fn = "deriveAppHashHex"
    /\ signerCalls[1].input.params = [keyLen |-> 16]
    /\ signerCalls[1].outcome.returned.length = 32
    /\ signerCalls[2].fn = "signRequest"
    /\ signerCalls[2].input.appHashHex = signerCalls[1].outcome.returned
    /\ signerCalls[3].fn = "deriveAppHashHex"
    /\ signerCalls[3].input = signerCalls[1].input
    /\ signerCalls[3].outcome = signerCalls[1].outcome

\* ------------------------------------------------------ loading: claims
\* C22 (as claimed): loading is true for the whole duration of a refresh: in
\* every reachable state in which a subscription fetch started by refresh()
\* (its signing-callback call or its GET) has not yet settled, loading=true,
\* including when several refresh() calls overlap.
C22_LoadingWhileFetching == FetchesWaiting > 0 => loading = TRUE

\* C22 (amended): a step that starts a subscription fetch sets loading=true,
\* and while a fetch has not yet settled loading turns false only in a step
\* in which another refresh() completes (an overlapping fetch settles, or a
\* refresh() made without a deviceId returns at once): loading is true for
\* the whole of a refresh when no other refresh() completes during it.
C22_LoadingUntilFirstCompletion ==
    [][/\ FetchesWaiting' > FetchesWaiting => loading' = TRUE
       /\ (FetchesWaiting' > 0 /\ loading = TRUE /\ loading' = FALSE)
             => /\ settled = NoOp
                /\ settled'.kind \in {"refresh", "cancelSubscription"}
                /\ settled'.pc = "resolved"]_vars

\* two refreshes overlapped, one has completed and set loading=false, and
\* the fetch of the other is still waiting for its response
C22_Witness ==
    /\ settled.kind = "refresh"
    /\ settled.pc = "resolved"
    /\ settled.response # NoResponse
    /\ FetchesWaiting = 1
    /\ loading = FALSE

\* a single refresh is waiting for its GET and loading is true
C22_WitnessSingle ==
    /\ Len(ops) = 1
    /\ ops[1].kind = "refresh"
    /\ ops[1].pc = "awaitGet"
    /\ loading = TRUE

\* C23: loading changes from true to false only at the completion of a
\* refresh(): no inbound ready or auth message sets loading=false by itself,
\* so if the embedded frame never sends a message and the application calls
\* nothing, loading stays true forever. (A step in which loading falls is the
\* completion of a refresh(); a step that leaves embedReady, user or deviceId
\* changed, which only a message does, never lowers loading; and while
\* nothing is in flight only a refresh() of the application lowers it.)
C23_LoadingFallsAtRefreshCompletion ==
    [][/\ (loading = TRUE /\ loading' = FALSE)
             => /\ settled = NoOp
                /\ settled'.kind \in {"refresh", "cancelSubscription"}
                /\ settled'.pc = "resolved"
       /\ (embedReady' # embedReady \/ user' # user \/ deviceId' # deviceId)
             => (loading = TRUE => loading' = TRUE)
       /\ (ops = <<>> /\ loading = TRUE /\ loading' = FALSE)
             => /\ settled'.kind = "refresh"
                /\ settled'.gets = 0
                /\ settled'.thrown = nullObj
                /\ settled'.response = NoResponse]_vars

\* the ready message and an auth message without deviceId have arrived,
\* nothing is in flight, and loading is still true
C23_Witness ==
    /\ mounted
    /\ embedReady
    /\ TruthyObj(user)
    /\ deviceId = null
    /\ Quiet
    /\ requestsPosted = 2
    /\ loading = TRUE

\* a refresh() that fetched has just completed and loading is false
C23_WitnessCompletion ==
    /\ settled.kind = "refresh"
    /\ settled.pc = "resolved"
    /\ settled.gets = 1
    /\ loading = FALSE
    /\ ops = <<>>

\* C24: the bridge posts a request message into the frame only in response
\* to a ready message: no request is posted before the first ready message
\* has been received, and a repeated ready message causes no additional
\* request. (Every step that posts a request is the step in which embedReady
\* turns true.)
C24_RequestOnlyAfterReady ==
    [][requestsPosted' # requestsPosted => (embedReady = FALSE /\ embedReady' = TRUE)]_vars

\* ----------------------------------------------- subscription fetch: claims
\* the fetches that wait at the signing call for deviceId d, as refresh()
\* starts them: the callback called with {deviceId: d} and no GET issued
FetchesStartedIn(waiting, d) ==
    {i \in 1..Len(waiting) :
        /\ waiting[i].kind = "refresh"
        /\ waiting[i].pc = "awaitSign"
        /\ waiting[i].deviceId = d
        /\ waiting[i].getSignCall = [called |-> TRUE, deviceId |-> d, additionalData |-> undefined]
        /\ waiting[i].gets = 0}
FetchesStartedFor(d) == FetchesStartedIn(ops, d)

C25_WitnessRepeat ==
    /\ deviceId = "d1"
    /\ TruthyObj(user)
    /\ Len(ops) = 1
    /\ ops[1].pc = "awaitGet"
    /\ settled = NoOp
    /\ currentSubscription = nullObj
    /\ error = null
    /\ loading = TRUE

\* the waiting fetches whose signing callback was called with {deviceId: d}
\* and no additionalData, and that have issued no GET
SignCallsFor(waiting, d) ==
    {i \in 1..Len(waiting) :
        /\ waiting[i].pc = "awaitSign"
        /\ waiting[i].getSignCall = [called |-> TRUE, deviceId |-> d, additionalData |-> undefined]
        /\ waiting[i].getRequest = NoRequest
        /\ waiting[i].gets = 0}

\* in every waiting fetch the signing callback was called before the GET,
\* without additionalData, and the GET carries what the callback returned
SignedBeforeGet ==
    \A i \in 1..Len(ops) :
        /\ ops[i].pc = "awaitSign"
              => /\ ops[i].getSignCall.called
                 /\ ops[i].getSignCall.additionalData = undefined
                 /\ ops[i].getRequest = NoRequest
                 /\ ops[i].gets = 0
        /\ ops[i].pc = "awaitGet"
              => /\ ops[i].getSignCall.called
                 /\ ops[i].getSignCall.additionalData = undefined
                 /\ ops[i].getSignResult \in SignResults
                 /\ ops[i].getRequest.issued
                 /\ ops[i].getRequest.signature = ops[i].getSignResult.signature
                 /\ ops[i].getRequest.timestamp = ops[i].getSignResult.timestamp
                 /\ ops[i].gets = 1

\* a step in which a fetch ends because its signing callback failed: the
\* invocation resolves with what was thrown and without any response
SignFailureStep ==
    /\ settled = NoOp
    /\ settled'.kind \in {"refresh", "cancelSubscription"}
    /\ settled'.pc = "resolved"
    /\ settled'.response = NoResponse
    /\ settled'.thrown # nullObj

\* a failed signing callback: no GET was issued and the failure is in error
SignFailureRecorded ==
    SignFailureStep => /\ settled'.gets = 0
                       /\ error' = errorString(settled'.thrown)

\* C26 (as claimed): in a subscription fetch the signing callback is called
\* before the GET is issued, with the bridge's current deviceId and no
\* additionalData; if the signing callback fails, no GET is issued and the
\* failure ends up in the error field.
C26_SignCurrentDeviceIdThenGet ==
    /\ []SignedBeforeGet
    /\ [][/\ FetchesWaiting' > FetchesWaiting
                => Cardinality(SignCallsFor(ops', deviceId')) =
                       Cardinality(SignCallsFor(ops, deviceId')) + 1
          /\ SignFailureRecorded]_vars

\* C26 (amended): in a subscription fetch the signing callback is called
\* before the GET is issued, with no additionalData and with the deviceId
\* the bridge held when the operation was called: the current deviceId for a
\* refresh(), the deviceId captured by cancelSubscription for the refresh
\* that follows its DELETE; if the signing callback fails, no GET is issued
\* and the failure ends up in the error field.
C26_SignCapturedDeviceIdThenGet ==
    /\ []SignedBeforeGet
    /\ [](\A i \in 1..Len(ops) :
            ops[i].pc \in {"awaitSign", "awaitGet"}
                => ops[i].getSignCall.deviceId = ops[i].deviceId)
    /\ [][/\ (FetchesWaiting' > FetchesWaiting /\ Len(ops') > Len(ops))
                => Cardinality(SignCallsFor(ops', deviceId')) =
                       Cardinality(SignCallsFor(ops, deviceId')) + 1
          /\ (FetchesWaiting' > FetchesWaiting /\ Len(ops') = Len(ops))
                => \E i \in 1..Len(ops) :
                      /\ ops[i].pc = "awaitDelete"
                      /\ Cardinality(SignCallsFor(ops', ops[i].deviceId)) =
                             Cardinality(SignCallsFor(ops, ops[i].deviceId)) + 1
          /\ SignFailureRecorded]_vars

\* the DELETE of a cancellation made for d1 has succeeded after the bridge
\* moved to d2: the fetch that follows signs for d1
C26_Witness ==
    /\ deviceId = "d2"
    /\ \E i \in 1..Len(ops) :
          /\ ops[i].kind = "cancelSubscription"
          /\ ops[i].pc = "awaitSign"
          /\ ops[i].getSignCall = [called |-> TRUE, deviceId |-> "d1", additionalData |-> undefined]

\* the signing callback of a refresh has failed: no GET, the message in error
C26_WitnessSignFailed ==
    /\ settled.kind = "refresh"
    /\ settled.pc = "resolved"
    /\ settled.response = NoResponse
    /\ settled.thrown = [isError |-> TRUE, message |-> "sign failed"]
    /\ settled.gets = 0
    /\ error = "sign failed"

\* an invocation that waits for its signing callback holds no signature
\* and has sent no request with one
HoldsNoSignature(op) ==
    /\ op.pc = "awaitSign"
          => (op.getSignCall.called /\ op.getSignResult = nullObj
                /\ op.signResult = nullObj /\ op.getRequest = NoRequest)
    /\ op.pc \in {"cancelAwaitSign", "redirectAwaitSign"}
          => (op.signCall.called /\ op.signResult = nullObj /\ op.request = NoRequest)

\* the signed request an invocation waits for carries the signature and the
\* timestamp that its own signing-callback call returned
SignedWithOwnResult(op) ==
    /\ op.pc = "awaitGet"
          => /\ op.getSignCall.called
             /\ op.getSignResult \in SignResults
             /\ op.getRequest.signature = op.getSignResult.signature
             /\ op.getRequest.timestamp = op.getSignResult.timestamp
             /\ op.signResult = nullObj
    /\ (op.pc = "awaitDelete" /\ op.request.signature # undefined)
          => /\ op.signCall.called
             /\ op.signResult \in SignResults
             /\ op.request.signature = op.signResult.signature
             /\ op.request.timestamp = op.signResult.timestamp

\* C27: every signed request uses a signature and timestamp obtained from a
\* signing-callback call made inside the same operation invocation: the
\* bridge never stores a signature or timestamp and never reuses one across
\* two GET, DELETE or confirm requests.
C27_FreshSignaturePerRequest ==
    /\ \A i \in 1..Len(ops) : HoldsNoSignature(ops[i]) /\ SignedWithOwnResult(ops[i])
    /\ location.navigated /\ location.searchParams.signature # undefined
          => /\ settled.kind = "redirectToConfirm"
             /\ settled.signCall.called
             /\ settled.signResult \in SignResults
             /\ location.searchParams.signature = settled.signResult.signature
             /\ location.searchParams.timestamp = settled.signResult.timestamp

\* a cancellation has sent its signed DELETE with one result of the signing
\* callback, the DELETE has succeeded, and the GET that follows has been sent
\* with the result of a second call
C27_Witness ==
    \E i \in 1..Len(ops) :
        /\ ops[i].kind = "cancelSubscription"
        /\ ops[i].pc = "awaitGet"
        /\ ops[i].deleteResponse.kind = "http"
        /\ ops[i].deletes = 1
        /\ ops[i].gets = 1
        /\ ops[i].getRequest.signature = ops[i].getSignResult.signature

\* the page has navigated to the confirm URL with the signature of the
\* signing call of that redirectToConfirm, while a fetch signed by another
\* call is waiting
C27_WitnessConfirm ==
    /\ location.navigated
    /\ location.searchParams.signature = "sigA"
    /\ settled.signResult = [signature |-> "sigA", timestamp |-> "1700000000"]
    /\ \E i \in 1..Len(ops) : ops[i].pc = "awaitGet" /\ ops[i].getSignResult.signature = "sigB"

\* a step in which a fetch ends after the response resp to its GET
GetSettledWith(resp) ==
    /\ settled = NoOp
    /\ settled'.kind \in {"refresh", "cancelSubscription"}
    /\ settled'.pc = "resolved"
    /\ settled'.response = resp

\* C28: for a non-2xx subscription GET the recorded error is the response
\* body text, or "Failed to get subscription (<status>)" when the body is
\* empty; for a 2xx response whose payload has success=false it is the
\* payload's error, or "Failed to get subscription" when absent; in both
\* cases currentSubscription is not modified.
C28_GetErrorMessages ==
    [][\A resp \in GetResponses :
          GetSettledWith(resp) =>
             /\ (resp.kind = "http" /\ ~resp.ok)
                   => /\ resp.text # "" => error' = resp.text
                      /\ (resp.text = "" /\ resp.status = 500)
                            => error' = "Failed to get subscription (500)"
                      /\ currentSubscription' = currentSubscription
             /\ (resp.kind = "http" /\ resp.ok /\ ~resp.payload.success)
                   => /\ resp.payload.error # undefined => error' = resp.payload.error
                      /\ resp.payload.error = undefined
                            => error' = "Failed to get subscription"
                      /\ currentSubscription' = currentSubscription]_vars

\* a GET answered 500 with an empty body has just failed while a
\* subscription was stored: the error names the status, the subscription stays
C28_Witness ==
    /\ settled.pc = "resolved"
    /\ settled.response = [kind |-> "http", ok |-> FALSE, status |-> 500, text |-> ""]
    /\ error = "Failed to get subscription (500)"
    /\ currentSubscription # nullObj

\* a GET answered 2xx with success=false and no error has just failed while
\* a subscription was stored
C28_WitnessPayload ==
    /\ settled.pc = "resolved"
    /\ settled.response = [kind |-> "http", ok |-> TRUE,
                           payload |-> [success |-> FALSE, error |-> undefined]]
    /\ error = "Failed to get subscription"
    /\ currentSubscription # nullObj

\* a GET answered 500 with a body has just failed: the error is the body
C28_WitnessBody ==
    /\ settled.pc = "resolved"
    /\ settled.response = [kind |-> "http", ok |-> FALSE, status |-> 500, text |-> "server error"]
    /\ error = "server error"

\* ------------------------------------------------ redirectToConfirm: claims
\* a query parameter of the URL that carries the value given in params
Appears(url, params, name) ==
    /\ url.searchParams[name] # undefined
    /\ url.searchParams[name] = params[name]

\* an optional query parameter: there, with the value of params, exactly
\* when params has it
AppearsIfPresent(url, params, name) ==
    IF params[name] \notin {undefined, ""}
    THEN url.searchParams[name] = params[name]
    ELSE url.searchParams[name] = undefined

\* C29: in both URLs built by redirectToConfirm, appLogo and appUrl appear as
\* query parameters exactly when they are present in params, and appId,
\* appName, amountPerDay, nextSuccess and nextCancelled always appear.
C29_OptionalQueryParameters ==
    location.navigated =>
        /\ settled.kind = "redirectToConfirm"
        /\ location.url \in {BaseUrl \o "/api/v1/subscription/init", BaseUrl \o "/confirm"}
        /\ \A name \in {"appLogo", "appUrl"} :
              AppearsIfPresent(location, settled.params, name)
        /\ \A name \in {"appId", "appName", "amountPerDay", "nextSuccess", "nextCancelled"} :
              Appears(location, settled.params, name)

\* the page has navigated to the init URL for params with an appLogo and
\* without an appUrl
C29_Witness ==
    /\ location.navigated
    /\ location.url = BaseUrl \o "/api/v1/subscription/init"
    /\ settled.params.appLogo = "https://app.example/logo.png"
    /\ settled.params.appUrl = undefined
    /\ location.searchParams.appLogo = "https://app.example/logo.png"
    /\ location.searchParams.appUrl = undefined

\* the page has navigated to the confirm URL for params with an appUrl and
\* without an appLogo
C29_WitnessConfirm ==
    /\ location.navigated
    /\ location.url = BaseUrl \o "/confirm"
    /\ settled.params.appLogo = undefined
    /\ settled.params.appUrl = "https://app.example"
    /\ location.searchParams.appLogo = undefined
    /\ location.searchParams.appUrl = "https://app.example"

\* C30: whenever redirectToConfirm navigates to the init URL, its
\* signatureCallbackUrl parameter is built from an appUrl that is present in
\* params: the bridge never navigates with a callback URL derived from a
\* missing appUrl.
C30_CallbackUrlFromPresentAppUrl ==
    (location.navigated /\ location.url = BaseUrl \o "/api/v1/subscription/init")
        => /\ settled.params.appUrl \notin {undefined, null, ""}
           /\ location.searchParams.signatureCallbackUrl =
                  settled.params.appUrl \o "/api/signature-callback"

\* ------------------------------------------------- session state: claims
\* C31: in every reachable state in which currentSubscription is non-null, it
\* is a record with isActive=true and cancelledAt=null.
C31_StoredSubscriptionActive ==
    currentSubscription # nullObj =>
        /\ DOMAIN currentSubscription =
               {"id", "amountPerDay", "createdAt", "cancelledAt", "isActive"}
        /\ currentSubscription.isActive = TRUE
        /\ currentSubscription.cancelledAt = null

\* a fetch has just stored the subscription of a payload that has no
\* cancelledAt field at all: the stored record has cancelledAt=null
C31_Witness ==
    /\ settled.pc = "resolved"
    /\ SuccessResponse(settled.response)
    /\ TruthyObj(settled.response.payload.subscription)
    /\ settled.response.payload.subscription.cancelledAt = undefined
    /\ currentSubscription # nullObj
    /\ currentSubscription.id = settled.response.payload.subscription.id
    /\ currentSubscription.cancelledAt = null

\* this step is the end of a subscription fetch that stores a subscription
StoresSubscription ==
    /\ settled' # NoOp
    /\ settled'.pc = "resolved"
    /\ SuccessResponse(settled'.response)
    /\ currentSubscription' # nullObj

\* C32: a non-null currentSubscription was returned by a subscription fetch
\* signed for the bridge's current deviceId, and a response to a fetch issued
\* for an earlier deviceId never becomes the currentSubscription of a later
\* one: a change of deviceId drops the subscription held, a subscription
\* appears only at the end of a fetch, and the fetch that stores one was made
\* for the deviceId the bridge holds at that moment.
C32_FromFetchForCurrentDeviceId ==
    [][/\ deviceId' # deviceId => currentSubscription' = nullObj
       /\ (currentSubscription' # nullObj /\ currentSubscription' # currentSubscription)
              => StoresSubscription
       /\ StoresSubscription => settled'.deviceId = deviceId']_vars

\* C33: an inbound message leaves the session state (user, deviceId,
\* currentSubscription, loading, error) unchanged unless it is an auth
\* message: a message with null data, with a non-string type or with an
\* unrecognised type is ignored (the handler runs and nothing changes), and a
\* ready message changes only the embed-ready flag (and posts the request
\* message that the flag's effect sends).
C33_OnlyAuthChangesSession ==
    /\ []((mounted /\ NoneSettled)
            => \A m \in IgnoredMessages : ENABLED (HandleMessage(m) /\ UNCHANGED vars))
    /\ [][\A m \in IgnoredMessages \cup {ReadyMessage} :
              HandleMessage(m)
                  => UNCHANGED <<user, deviceId, currentSubscription, loading, error>>]_vars
    /\ [][HandleMessage(ReadyMessage)
              => /\ embedReady' = TRUE
                 /\ UNCHANGED <<mounted, user, deviceId, currentSubscription, loading,
                                error, ops, settled, location, signerCalls>>]_vars

\* the ready message has arrived before any auth message: the session state
\* is still the initial one, loading included
C33_Witness ==
    /\ embedReady
    /\ user = nullObj
    /\ deviceId = null
    /\ currentSubscription = nullObj
    /\ loading = TRUE
    /\ error = null
    /\ ops = <<>>

\* the ready message has arrived while a fetch waits and a subscription is
\* held: both are as they were
C33_WitnessLater ==
    /\ embedReady
    /\ Truthy(deviceId)
    /\ currentSubscription # nullObj
    /\ loading = TRUE
    /\ FetchesWaiting > 0

\* the auth message events, from every origin
AuthEvents == [origin : Origins, data : AuthMessages]

\* the fetch that a new deviceId starts fits the bound on waiting invocations
FetchFits(d) == HasCapacity \/ ~Truthy(d) \/ d = deviceId

C34_WitnessMissing ==
    /\ ~embedReady
    /\ user = nullObj
    /\ deviceId = null
    /\ loading = FALSE
    /\ \E i \in 1..Len(ops) : ops[i].deviceId = "d1"

\* op is a cancelSubscription call that threw at its precondition checks
ThrewAtPreconditions(op) ==
    /\ op.kind = "cancelSubscription"
    /\ op.pc = "rejected"
    /\ ~op.signCall.called
    /\ ~op.request.issued
    /\ \/ op.thrown = Error("User must be authenticated to cancel subscription")
       \/ op.thrown = Error("Either deviceId or appUrl is required to cancel subscription")

\* C35: a cancelSubscription call that throws at its precondition checks
\* (user unknown, or deviceId and appUrl both missing) leaves user, deviceId,
\* currentSubscription and loading unchanged; its only state effect is that
\* the error field is cleared to null.
C35_PreconditionThrowClearsErrorOnly ==
    /\ []((mounted /\ NoneSettled /\ NoCancelWaiting)
            => \A subscriptionIds \in IdLists, appUrl \in AppUrls :
                  cancelBranch(user, deviceId, appUrl) \in {"throwUser", "throwMissing"}
                      => ENABLED (/\ CancelSubscription(subscriptionIds, appUrl)
                                  /\ ThrewAtPreconditions(settled')
                                  /\ error' = null))
    /\ [][ThrewAtPreconditions(settled')
              => /\ error' = null
                 /\ UNCHANGED <<mounted, embedReady, user, deviceId, currentSubscription,
                                loading, requestsPosted, ops, location, signerCalls>>]_vars

\* the call has thrown for want of a user in the initial session state:
\* loading is still true
C35_Witness ==
    /\ ThrewAtPreconditions(settled)
    /\ settled.thrown = Error("User must be authenticated to cancel subscription")
    /\ user = nullObj
    /\ loading = TRUE
    /\ error = null

\* the call has thrown for want of deviceId and appUrl while a subscription
\* is held: the subscription is still there
C35_WitnessMissing ==
    /\ ThrewAtPreconditions(settled)
    /\ settled.thrown = Error("Either deviceId or appUrl is required to cancel subscription")
    /\ user # nullObj
    /\ ~Truthy(deviceId)
    /\ currentSubscription # nullObj
    /\ error = null

====
